---------------------------- MODULE Spec2Model ----------------------------
(***************************************************************************)
(* AutoMarketplace: the REST layer (server/routes.ts) over the in-memory   *)
(* record store (server/storage.ts), the batch image upload handler and    *)
(* the VIN decode service (server/services).                               *)
(*                                                                         *)
(* The specifications share the variables; each has its own next-state     *)
(* relation, defined next to the handlers it runs. Among them:             *)
(*   Spec        the record store behind the vehicle and listing routes    *)
(*   SpecPost    POST /api/vehicles with every request body of the model   *)
(*   SpecUpload  one POST /api/images/upload request, image by image       *)
(*   SpecVin     one GET /api/vin/:vin request and its outbound call       *)
(*   SpecPreview the listing preview of the page and its generate requests *)
(*   SpecPanel   the upload panel of the page next to the vehicle form     *)
(***************************************************************************)
EXTENDS Integers, Sequences, FiniteSets, TLC

VARIABLES
    vehicles,   \* MemStorage.vehicles: a JS Map, kept as its entries in insertion order
    listings,   \* MemStorage.listings: likewise
    nextId,     \* how many identifiers randomUUID() has handed out so far, plus one
    now,        \* the wall clock read by new Date(), in milliseconds
    req,        \* the last request a store route handled
    resp,       \* the response it sent
    up,         \* the upload request in progress (SpecUpload)
    vin,        \* the VIN lookup in progress (SpecVin)
    aiExtractions,  \* MemStorage.aiExtractions: a JS Map, as vehicles
    an,         \* the inference response being analyzed (SpecAnalyze)
    hc,         \* the health check in progress (SpecHealth)
    inflight,   \* the requests whose handlers are suspended at an await (SpecRace)
    home,       \* the state of the Home page: selectedVehicle (NoBody for null),
                \* uploadedImages, aiExtractions
    listingPreview,  \* ListingPreview: its listingData (NoBody for null), the generate
                     \* requests it issued, and whether a render is due (stale)
    imageUpload      \* ImageUpload: its own uploadedImages, shown as the upload preview

vars == <<vehicles, listings, nextId, now, req, resp, up, vin, aiExtractions, an, hc, inflight,
          home, listingPreview, imageUpload>>

(***************************************************************************)
(* Bounds of the model.                                                    *)
(***************************************************************************)
MaxIds == 2      \* records created in one run
MaxClock == 1    \* clock ticks in one run

(***************************************************************************)
(* JS values.                                                              *)
(***************************************************************************)
Null == "<null>"                 \* JS null in a string-or-null field
NoBody == [k \in {} |-> 0]       \* a request without a JSON body: {}

Has(o, k) == k \in DOMAIN o

\* { ...a, ...b }: the keys of both, b's value where b has the key
Spread(a, b) == [k \in DOMAIN a \cup DOMAIN b |-> IF k \in DOMAIN b THEN b[k] ELSE a[k]]

(***************************************************************************)
(* A JS Map as the sequence of its values in insertion order; every value  *)
(* carries its key in the field id.                                        *)
(***************************************************************************)
MapHas(m, id) == \E i \in 1..Len(m) : m[i].id = id

MapIndex(m, id) == CHOOSE i \in 1..Len(m) : m[i].id = id

MapGet(m, id) == m[MapIndex(m, id)]

\* Map.prototype.set(key, value): an existing key keeps its position
MapSet(m, id, rec) ==
    IF MapHas(m, id) THEN [m EXCEPT ![MapIndex(m, id)] = rec] ELSE Append(m, rec)

\* a delete that drops the oldest entry instead of the keyed one
MapDeleteHead(m, id) == IF MapHas(m, id) THEN Tail(m) ELSE m

\* Map.prototype.delete(key)
MapDelete(m, id) ==
    IF MapHas(m, id)
    THEN SubSeq(m, 1, MapIndex(m, id) - 1) \o SubSeq(m, MapIndex(m, id) + 1, Len(m))
    ELSE m

\* where Array.prototype.sort (stable) with comparator b.createdAt - a.createdAt
\* puts x among the already sorted elements: after every element not older than x
InsertPosition(sorted, x) == Cardinality({i \in 1..Len(sorted) : sorted[i].createdAt >= x.createdAt})

RECURSIVE SortNewestFirst(_)
SortNewestFirst(s) ==
    IF s = <<>> THEN <<>>
    ELSE LET rest == SortNewestFirst(SubSeq(s, 1, Len(s) - 1))
             x == s[Len(s)]
             k == InsertPosition(rest, x)
         IN SubSeq(rest, 1, k) \o <<x>> \o SubSeq(rest, k + 1, Len(rest))

(***************************************************************************)
(* shared/schema.ts: vehicleFormSchema.                                    *)
(***************************************************************************)
CurrentYear == 2026      \* new Date().getFullYear() when the schema module is loaded

Transmissions == {"automatic", "manual", "cvt"}
FuelTypes == {"gasoline", "hybrid", "electric", "diesel"}
Conditions == {"excellent", "good", "fair", "poor"}

VehicleRequired ==
    {"year", "make", "model", "mileage", "transmission", "fuelType", "condition",
     "price", "location", "description"}
VehicleOptional == {"vin", "trim", "features", "images", "aiExtractedData"}

\* the field checks with the upper bound of year exclusive
VehicleFieldOkYearExclusive(k, v) ==
    CASE k = "year" -> v >= 1900 /\ v < CurrentYear + 1
      [] k = "mileage" -> v >= 0 /\ v <= 999999
      [] k = "price" -> v >= 1 /\ v <= 999999
      [] k = "make" -> Len(v) >= 1
      [] k = "model" -> Len(v) >= 1
      [] k = "condition" -> v \in Conditions
      [] k = "transmission" -> v \in Transmissions
      [] k = "fuelType" -> v \in FuelTypes
      [] k = "location" -> Len(v) >= 1
      [] k = "description" -> Len(v) >= 10
      [] OTHER -> TRUE

\* the field checks with a price of 0 let through
VehicleFieldOkPriceZero(k, v) ==
    CASE k = "year" -> v >= 1900 /\ v <= CurrentYear + 1
      [] k = "mileage" -> v >= 0 /\ v <= 999999
      [] k = "price" -> v >= 0 /\ v <= 999999
      [] k = "make" -> Len(v) >= 1
      [] k = "model" -> Len(v) >= 1
      [] k = "condition" -> v \in Conditions
      [] k = "transmission" -> v \in Transmissions
      [] k = "fuelType" -> v \in FuelTypes
      [] k = "location" -> Len(v) >= 1
      [] k = "description" -> Len(v) >= 10
      [] OTHER -> TRUE

\* the field checks with no upper bound on mileage
VehicleFieldOkMileageOpen(k, v) ==
    CASE k = "year" -> v >= 1900 /\ v <= CurrentYear + 1
      [] k = "mileage" -> v >= 0
      [] k = "price" -> v >= 1 /\ v <= 999999
      [] k = "make" -> Len(v) >= 1
      [] k = "model" -> Len(v) >= 1
      [] k = "condition" -> v \in Conditions
      [] k = "transmission" -> v \in Transmissions
      [] k = "fuelType" -> v \in FuelTypes
      [] k = "location" -> Len(v) >= 1
      [] k = "description" -> Len(v) >= 10
      [] OTHER -> TRUE

\* the check of one field that is present in the body
VehicleFieldOk(k, v) ==
    CASE k = "year" -> v >= 1900 /\ v <= CurrentYear + 1
      [] k = "mileage" -> v >= 0 /\ v <= 999999
      [] k = "price" -> v >= 1 /\ v <= 999999
      [] k = "make" -> Len(v) >= 1
      [] k = "model" -> Len(v) >= 1
      [] k = "condition" -> v \in Conditions
      [] k = "transmission" -> v \in Transmissions
      [] k = "fuelType" -> v \in FuelTypes
      [] k = "location" -> Len(v) >= 1
      [] k = "description" -> Len(v) >= 10
      [] OTHER -> TRUE

\* vehicleFormSchema.parse succeeds (partial = FALSE) or
\* vehicleFormSchema.partial().parse succeeds (partial = TRUE)
VehicleSchemaOk(body, partial) ==
    /\ partial \/ VehicleRequired \subseteq DOMAIN body
    /\ \A k \in DOMAIN body : VehicleFieldOk(k, body[k])

\* what parse returns: zod objects strip the keys the schema does not know
VehicleParsed(body) == [k \in DOMAIN body \cap (VehicleRequired \cup VehicleOptional) |-> body[k]]

(***************************************************************************)
(* The request bodies the model sends.                                     *)
(***************************************************************************)
GoodBody ==
    [year |-> 2020, make |-> "Honda", model |-> "Civic", mileage |-> 45000,
     transmission |-> "automatic", fuelType |-> "gasoline", condition |-> "good",
     price |-> 15000, location |-> "Austin, TX", description |-> "One owner, clean title."]

\* GoodBody is the base of the invalid bodies below; the two bodies that are
\* stored sit on the edges of the ranges.
\* every bounded field on the edge of its range, an empty trim, a stripped key
EdgeBody ==
    [year |-> 1900, make |-> "A", model |-> "B", mileage |-> 0,
     transmission |-> "cvt", fuelType |-> "diesel", condition |-> "poor",
     price |-> 1, location |-> "X", description |-> "0123456789",
     trim |-> "", features |-> <<>>, id |-> 1]

TopBody ==
    [year |-> CurrentYear + 1, make |-> "Ford", model |-> "F-150", mileage |-> 999999,
     transmission |-> "manual", fuelType |-> "hybrid", condition |-> "excellent",
     price |-> 999999, location |-> "Reno, NV", description |-> "Brand new truck, never driven.",
     trim |-> "XLT", features |-> <<"Sunroof", "Leather Seats">>, images |-> <<"/uploads/vehicles/a.jpg">>]

ValidVehicleBodies == {EdgeBody, TopBody}

Without(body, k) == [f \in DOMAIN body \ {k} |-> body[f]]

InvalidVehicleBodies ==
    {[GoodBody EXCEPT !.make = ""], [GoodBody EXCEPT !.model = ""],
     [GoodBody EXCEPT !.year = 1899], [GoodBody EXCEPT !.year = CurrentYear + 2],
     [GoodBody EXCEPT !.mileage = -1], [GoodBody EXCEPT !.mileage = 1000000],
     [GoodBody EXCEPT !.price = 0], [GoodBody EXCEPT !.price = 1000000],
     [GoodBody EXCEPT !.transmission = "semi-automatic"],
     [GoodBody EXCEPT !.fuelType = "flex fuel"],
     [GoodBody EXCEPT !.condition = "new"],
     [GoodBody EXCEPT !.location = ""],
     [GoodBody EXCEPT !.description = "Runs well"],
     Without(GoodBody, "make"), Without(GoodBody, "price"), NoBody}

VehicleBodies == ValidVehicleBodies \cup InvalidVehicleBodies

\* the bodies of POST /api/vehicles in Spec; SpecPost sends all of VehicleBodies
PostedBodies == ValidVehicleBodies \cup {[GoodBody EXCEPT !.make = ""]}

\* bodies of PUT /api/vehicles/:id
VehiclePatches ==
    {[price |-> 14000, features |-> <<"Sunroof">>, createdAt |-> 9],
     [make |-> "", price |-> 14000]}

(***************************************************************************)
(* server/storage.ts: MemStorage, vehicles.                                *)
(***************************************************************************)
\* a || b for a string field that may be missing: undefined, null and "" are falsy
OrElse(o, k, d) == IF Has(o, k) /\ o[k] # Null /\ o[k] # "" THEN o[k] ELSE d

\* null in a field that holds an array (features and images are nullable)
NullArray == <<Null>>

\* a || [] for an array field that may be missing or null: every array is truthy
OrElseArray(o, k, d) == IF Has(o, k) /\ o[k] # NullArray THEN o[k] ELSE d

NewVehicle(insertVehicle, id, t) ==
    Spread(insertVehicle,
           [id |-> id, createdAt |-> t, updatedAt |-> t,
            trim |-> OrElse(insertVehicle, "trim", Null),
            features |-> OrElseArray(insertVehicle, "features", <<>>),
            images |-> OrElseArray(insertVehicle, "images", <<>>)])

\* an update that keeps nothing of the existing record but its identity
UpdatedVehicleReplaced(existing, updateData, t) ==
    Spread(updateData, [id |-> existing.id, createdAt |-> existing.createdAt, updatedAt |-> t])

UpdatedVehicle(existing, updateData, t) ==
    Spread(Spread(existing, updateData),
           [updatedAt |-> t,
            features |-> OrElseArray(updateData, "features", existing.features),
            images |-> OrElseArray(updateData, "images", existing.images)])

getAllVehicles == SortNewestFirst(vehicles)

(***************************************************************************)
(* shared/schema.ts: insertListingSchema; server/storage.ts: listings.     *)
(***************************************************************************)
\* a listing update that keeps nothing but the fields it is given
UpdatedListingReplaced(existing, updateData, t) == Spread(updateData, [updatedAt |-> t])

\* updateListing: { ...existing, ...updateData, updatedAt: new Date() }
UpdatedListing(existing, updateData, t) ==
    Spread(Spread(existing, updateData), [updatedAt |-> t])

ListingRequired == {"title", "platform"}
ListingOptional == {"vehicleId", "status", "listingData"}

\* insertListingSchema.parse succeeds: title and platform are strings, the rest
\* is optional, and status is any string
ListingSchemaOk(body) == ListingRequired \subseteq DOMAIN body

ListingParsed(body) == [k \in DOMAIN body \cap (ListingRequired \cup ListingOptional) |-> body[k]]

ListingBodies ==
    {[title |-> "2020 Honda Civic", platform |-> "facebook", vehicleId |-> 1],
     [title |-> "", platform |-> "craigslist", status |-> "published"],
     [platform |-> "facebook"]}

NewListing(insertListing, id, t) ==
    Spread(insertListing,
           [id |-> id, createdAt |-> t, updatedAt |-> t,
            status |-> OrElse(insertListing, "status", "draft")])

getAllListings == SortNewestFirst(listings)

(***************************************************************************)
(* Strings that are compared letter by letter are sequences of characters. *)
(***************************************************************************)
UpperLetters == <<"A", "B", "C", "D", "E", "F", "G", "H", "I", "J", "K", "L", "M", "N", "O", "P", "Q", "R", "S", "T", "U", "V", "W", "X", "Y", "Z">>
LowerLetters == <<"a", "b", "c", "d", "e", "f", "g", "h", "i", "j", "k", "l", "m", "n", "o", "p", "q", "r", "s", "t", "u", "v", "w", "x", "y", "z">>

LowerChar(c) ==
    IF \E i \in 1..26 : UpperLetters[i] = c
    THEN LowerLetters[CHOOSE i \in 1..26 : UpperLetters[i] = c]
    ELSE c

\* String.prototype.toLowerCase
toLowerCase(str) == [i \in 1..Len(str) |-> LowerChar(str[i])]

(***************************************************************************)
(* server/services/image-processor.ts and the upload route.                *)
(***************************************************************************)
MaxBatch == 3        \* files in one upload of the model
MaxFiles == 10       \* upload.array("images", 10)
MaxFileSize == 10485760    \* 10 * 1024 * 1024

ImageJpeg == <<"i", "m", "a", "g", "e", "/", "j", "p", "e", "g">>
ImageJpg == <<"i", "m", "a", "g", "e", "/", "j", "p", "g">>
ImagePng == <<"i", "m", "a", "g", "e", "/", "p", "n", "g">>
ImageWebp == <<"i", "m", "a", "g", "e", "/", "w", "e", "b", "p">>
allowedTypes == {ImageJpeg, ImageJpg, ImagePng, ImageWebp}

\* the files a client sends: name extension, declared type, size in bytes
SmallJpeg == [ext |-> ".jpg", mimetype |-> ImageJpeg, size |-> 2048]
FullPng == [ext |-> ".PNG", mimetype |-> <<"I", "M", "A", "G", "E", "/", "P", "N", "G">>, size |-> MaxFileSize]
Gif == [ext |-> ".gif", mimetype |-> <<"i", "m", "a", "g", "e", "/", "g", "i", "f">>, size |-> 2048]
HugeJpeg == [ext |-> ".jpeg", mimetype |-> ImageJpeg, size |-> MaxFileSize + 1]
FileKinds == {SmallJpeg, FullPng, Gif, HugeJpeg}

RECURSIVE SeqsUpTo(_, _)
SeqsUpTo(S, n) ==
    IF n = 0 THEN {<<>>}
    ELSE LET shorter == SeqsUpTo(S, n - 1)
         IN shorter \cup {Append(q, x) : q \in {r \in shorter : Len(r) = n - 1}, x \in S}

\* multer: fileFilter and limits.fileSize let the file through
MulterAccepts(file) ==
    /\ toLowerCase(file.mimetype) \in allowedTypes
    /\ file.size <= MaxFileSize

\* a validation that turns away a file of exactly the maximum size
validateImageFileBelowMax(mimetype, size) ==
    IF toLowerCase(mimetype) \notin allowedTypes
    THEN "Invalid file type. Only JPEG, PNG, and WEBP images are allowed."
    ELSE IF size >= MaxFileSize
    THEN "File too large. Maximum size is 10MB."
    ELSE ""

\* validateImageFile: the message of the error it throws, or "" when it returns
validateImageFile(mimetype, size) ==
    IF toLowerCase(mimetype) \notin allowedTypes
    THEN "Invalid file type. Only JPEG, PNG, and WEBP images are allowed."
    ELSE IF size > MaxFileSize
    THEN "File too large. Maximum size is 10MB."
    ELSE ""

\* processUploadedImage: the ProcessedImage of a file stored under a fresh name
processUploadedImage(file, uuid) ==
    [filename |-> [uuid |-> uuid, ext |-> file.ext],
     size |-> file.size,
     mimetype |-> file.mimetype,
     url |-> [dir |-> "/uploads/vehicles/", uuid |-> uuid, ext |-> file.ext]]

\* what the inference endpoint does with one call
InferenceOutcomes == {"json", "brokenjson", "nojson", "noresponse", "status", "unreachable"}

\* analyzeVehicleImage throws: the endpoint is unreachable, answers with a
\* non-success status, or its answer carries no response text
analyzeThrows(outcome) == outcome \in {"noresponse", "status", "unreachable"}

\* analyzeVehicleImage returns: confidence by what the response text holds
analyzeVehicleImage(outcome) ==
    [confidence |-> CASE outcome = "json" -> 85
                      [] outcome = "brokenjson" -> 60
                      [] OTHER -> 50,
     extractedText |-> outcome,
     rawResponse |-> outcome]

UpIdle ==
    [pc |-> "idle", files |-> <<>>, i |-> 0, processedImages |-> <<>>,
     aiExtractions |-> <<>>, calls |-> <<>>, disk |-> {}, diskError |-> FALSE,
     status |-> 0, images |-> <<>>, extractions |-> <<>>]

(***************************************************************************)
(* server/services: VinLookupService.                                      *)
(***************************************************************************)
Digits == <<"0", "1", "2", "3", "4", "5", "6", "7", "8", "9">>

\* the character class [A-HJ-NPR-Z0-9]
VinChars ==
    {"A", "B", "C", "D", "E", "F", "G", "H", "J", "K", "L", "M", "N", "P",
     "R", "S", "T", "U", "V", "W", "X", "Y", "Z",
     "0", "1", "2", "3", "4", "5", "6", "7", "8", "9"}

\* isValidVin: 17 characters and /^[A-HJ-NPR-Z0-9]{17}$/
isValidVin(v) ==
    /\ Len(v) = 17
    /\ \A i \in 1..Len(v) : v[i] \in VinChars

\* the VINs of the model
VinUpper == <<"1", "H", "G", "C", "M", "8", "2", "6", "3", "3", "A", "0", "0", "4", "3", "5", "2">>
VinLower == <<"1", "h", "g", "c", "m", "8", "2", "6", "3", "3", "a", "0", "0", "4", "3", "5", "2">>
VinMixed == <<"1", "H", "G", "c", "m", "8", "2", "6", "3", "3", "A", "0", "0", "4", "3", "5", "2">>
VinDigits == <<"1", "2", "3", "4", "5", "6", "7", "8", "9", "0", "1", "2", "3", "4", "5", "6", "7">>
VinWithI == <<"1", "H", "G", "C", "M", "8", "2", "6", "3", "3", "I", "0", "0", "4", "3", "5", "2">>
VinWithO == <<"1", "H", "G", "C", "M", "8", "2", "6", "3", "3", "O", "0", "0", "4", "3", "5", "2">>
VinWithLowerQ == <<"1", "h", "g", "c", "m", "8", "2", "6", "3", "3", "q", "0", "0", "4", "3", "5", "2">>
VinShort == <<"1", "H", "G", "C", "M", "8", "2", "6", "3", "3", "A", "0", "0", "4", "3", "5">>
VinLong == <<"1", "H", "G", "C", "M", "8", "2", "6", "3", "3", "A", "0", "0", "4", "3", "5", "2", "1">>
VinDash == <<"1", "H", "G", "C", "M", "8", "2", "6", "3", "3", "A", "0", "0", "4", "3", "5", "-">>
Vins == {VinUpper, VinLower, VinMixed, VinDigits, VinWithI, VinWithO, VinWithLowerQ,
         VinShort, VinLong, VinDash}

\* process.env.VIN_API_KEY || process.env.NHTSA_API_KEY || ""
ApiKeys == {"", "secret-key"}

\* what the registry does with the one request: the fetch rejects, the status is
\* not 2xx, the body is no JSON, or the body is JSON with Results (possibly empty)
NoResults == [kind |-> "json", Results |-> <<>>]
CheckDigitError ==
    [kind |-> "json",
     Results |-> <<[ErrorCode |-> "1",
                    ErrorText |-> "1 - Check Digit (9th position) does not calculate properly"]>>]
ErrorWithoutText == [kind |-> "json", Results |-> <<[ErrorCode |-> "8", ErrorText |-> ""]>>]
ErrorCodeOnly == [kind |-> "json", Results |-> <<[ErrorCode |-> "400"]>>]
DecodedAccord ==
    [kind |-> "json",
     Results |-> <<[ErrorCode |-> "0", ErrorText |-> "0 - VIN decoded clean",
                    Make |-> "HONDA", Model |-> "Accord", ModelYear |-> <<"2", "0", "0", "3">>,
                    Trim |-> "EX-V6", EngineHP |-> "240", TransmissionStyle |-> "Automatic",
                    FuelTypePrimary |-> <<"G", "a", "s", "o", "l", "i", "n", "e">>,
                    BodyClass |-> "Coupe", DriveType |-> "FWD"]>>]
DecodedSparse ==
    [kind |-> "json",
     Results |-> <<[ErrorCode |-> "0", ErrorText |-> "",
                    Make |-> "TESLA", Model |-> "", ModelYear |-> <<>>,
                    Trim |-> "", EngineHP |-> "", TransmissionStyle |-> "",
                    FuelTypePrimary |-> <<"E", "L", "E", "C", "T", "R", "I", "C">>,
                    BodyClass |-> "", DriveType |-> ""]>>]
DecodedDiesel ==
    [kind |-> "json",
     Results |-> <<[ErrorCode |-> "0", ErrorText |-> "",
                    Make |-> "FORD", Model |-> "F-250", ModelYear |-> <<"2", "0", "1", "9", ".", "5">>,
                    Trim |-> "", EngineHP |-> "", TransmissionStyle |-> "",
                    FuelTypePrimary |-> <<"C", "o", "m", "p", "r", "e", "s", "s", "e", "d", " ", "N", "a", "t", "u", "r", "a", "l", " ", "G", "a", "s", " ", "(", "C", "N", "G", ")">>,
                    BodyClass |-> "Pickup", DriveType |-> "4WD"]>>]
DecodedNoFuel ==
    [kind |-> "json",
     Results |-> <<[ErrorCode |-> "0", ErrorText |-> "",
                    Make |-> "KIA", Model |-> "Rio", ModelYear |-> <<"2", "0", "1", "5">>,
                    Trim |-> "", EngineHP |-> "", TransmissionStyle |-> "",
                    FuelTypePrimary |-> <<>>,
                    BodyClass |-> "", DriveType |-> ""]>>]
RegistryAnswers ==
    {[kind |-> "unreachable"], [kind |-> "status"], [kind |-> "notjson"],
     NoResults, CheckDigitError, ErrorWithoutText, ErrorCodeOnly,
     DecodedAccord, DecodedSparse, DecodedDiesel, DecodedNoFuel}

\* the table of mapFuelType
FuelGasoline == <<"g", "a", "s", "o", "l", "i", "n", "e">>
FuelGas == <<"g", "a", "s">>
FuelElectric == <<"e", "l", "e", "c", "t", "r", "i", "c">>
FuelHybrid == <<"h", "y", "b", "r", "i", "d">>
FuelDiesel == <<"d", "i", "e", "s", "e", "l">>
FuelFlex == <<"f", "l", "e", "x", " ", "f", "u", "e", "l">>
FuelE85 == <<"e", "8", "5">>

\* mappings[normalized]: the entry of the table, or <<>> for undefined. The
\* table is an object literal, so the lookup also finds what it inherits from
\* Object.prototype under an all-lower-case name: the function Object under
\* "constructor" and the prototype object under "__proto__", both truthy
FuelMappings(normalized) ==
    CASE normalized \in {FuelGasoline, FuelGas, FuelFlex, FuelE85} -> FuelGasoline
      [] normalized = FuelElectric -> FuelElectric
      [] normalized = FuelHybrid -> FuelHybrid
      [] normalized = FuelDiesel -> FuelDiesel
      [] normalized = <<"c", "o", "n", "s", "t", "r", "u", "c", "t", "o", "r">> ->
             <<"[Function: Object]">>
      [] normalized = <<"_", "_", "p", "r", "o", "t", "o", "_", "_">> ->
             <<"[Object: null prototype] {}">>
      [] OTHER -> <<>>

\* mapFuelType: <<>> stands for undefined
mapFuelType(fuelType) ==
    IF fuelType = <<>> THEN <<>>
    ELSE IF FuelMappings(toLowerCase(fuelType)) # <<>>
    THEN FuelMappings(toLowerCase(fuelType))
    ELSE FuelGasoline

DigitValue(c) == (CHOOSE i \in 1..10 : Digits[i] = c) - 1

IsDigit(c) == \E i \in 1..10 : Digits[i] = c

\* parseInt of a string of characters: the value of its leading digits, -1 for NaN
RECURSIVE ParseDigits(_, _)
ParseDigits(str, acc) ==
    IF str = <<>> \/ ~IsDigit(Head(str)) THEN acc
    ELSE ParseDigits(Tail(str), 10 * acc + DigitValue(Head(str)))

parseInt(str) == IF str = <<>> \/ ~IsDigit(Head(str)) THEN -1 ELSE ParseDigits(str, 0)

\* one optional field of an object literal: key: value || undefined
Field(k, v, truthy) == IF truthy THEN [x \in {k} |-> v] ELSE NoBody

RECURSIVE SpreadAll(_)
SpreadAll(objs) == IF objs = <<>> THEN NoBody ELSE Spread(Head(objs), SpreadAll(Tail(objs)))

Returned(value) == [threw |-> FALSE, value |-> value]
Thrown == [threw |-> TRUE]

\* lookupWithNHTSA once the fetch has settled with answer
lookupWithNHTSA(answer) ==
    IF answer.kind \in {"unreachable", "status", "notjson"} THEN Thrown
    ELSE IF answer.Results = <<>> THEN
        Returned([success |-> FALSE, error |-> "VIN not found in NHTSA database"])
    ELSE LET result == answer.Results[1]
             \* result.FuelTypePrimary of an answer without the field is undefined,
             \* which mapFuelType treats as it treats ""
             FuelTypePrimary == IF Has(result, "FuelTypePrimary")
                                THEN result.FuelTypePrimary ELSE <<>>
         IN
        IF result.ErrorCode # "0" THEN
            Returned([success |-> FALSE,
                      error |-> IF Has(result, "ErrorText") /\ result.ErrorText # ""
                                THEN result.ErrorText
                                ELSE "VIN not found in NHTSA database"])
        ELSE
            Returned(SpreadAll(<<
                Field("make", result.Make, result.Make # ""),
                Field("model", result.Model, result.Model # ""),
                Field("year", parseInt(result.ModelYear), parseInt(result.ModelYear) > 0),
                Field("trim", result.Trim, result.Trim # ""),
                Field("engine", result.EngineHP \o " HP", result.EngineHP # ""),
                Field("transmission", result.TransmissionStyle, result.TransmissionStyle # ""),
                Field("fuelType", mapFuelType(FuelTypePrimary),
                      mapFuelType(FuelTypePrimary) # <<>>),
                Field("bodyStyle", result.BodyClass, result.BodyClass # ""),
                Field("drivetrain", result.DriveType, result.DriveType # ""),
                [success |-> TRUE, source |-> "NHTSA"]>>))

\* lookupWithCommercialAPI: the placeholder
lookupWithCommercialAPI == [success |-> FALSE, error |-> "Commercial VIN API not configured"]

\* lookupVin with the try/catch left out: a failed fetch reaches the route
lookupVinUncaught(answer, apiKey) ==
    LET nhtsaResult == lookupWithNHTSA(answer) IN
    IF nhtsaResult.threw THEN Thrown
    ELSE IF nhtsaResult.value.success THEN nhtsaResult
    ELSE IF apiKey # "" THEN Returned(lookupWithCommercialAPI)
    ELSE Returned([success |-> FALSE,
                   error |-> "VIN lookup service unavailable. Please enter vehicle information manually."])

\* lookupVin from the point where the fetch of a valid VIN has settled
lookupVin(answer, apiKey) ==
    LET nhtsaResult == lookupWithNHTSA(answer) IN
    IF nhtsaResult.threw THEN
        Returned([success |-> FALSE,
                  error |-> "VIN lookup failed. Please try again or enter information manually."])
    ELSE IF nhtsaResult.value.success THEN nhtsaResult
    ELSE IF apiKey # "" THEN Returned(lookupWithCommercialAPI)
    ELSE Returned([success |-> FALSE,
                   error |-> "VIN lookup service unavailable. Please enter vehicle information manually."])

\* the secondary provider is consulted exactly when lookupVin gets past the
\* primary's failed result with a key configured
commercialAttempted(answer, apiKey) ==
    LET nhtsaResult == lookupWithNHTSA(answer) IN
    ~nhtsaResult.threw /\ ~nhtsaResult.value.success /\ apiKey # ""

MaxLookups == 2      \* lookups served in one run

\* calls and commercial count the outbound fetches and the secondary attempts of
\* the lookup in progress
VinIdle(apiKey) ==
    [pc |-> "idle", apiKey |-> apiKey, lookups |-> 0, vin |-> <<>>, calls |-> 0, commercial |-> 0,
     answer |-> [kind |-> "none"], status |-> 0,
     result |-> [success |-> FALSE, error |-> ""]]

(***************************************************************************)
(* server/services/ollama.ts: analyzeVehicleImage on the response text.    *)
(* The text is a sequence of characters.                                   *)
(***************************************************************************)
Whitespace == {" ", "\n"}

\* the characters of a sequence joined into one string
RECURSIVE StringOf(_)
StringOf(chars) ==
    IF Len(chars) = 0 THEN ""
    ELSE IF Len(chars) = 1 THEN chars[1]
    ELSE StringOf(SubSeq(chars, 1, Len(chars) \div 2))
         \o StringOf(SubSeq(chars, Len(chars) \div 2 + 1, Len(chars)))

Min(S) == CHOOSE x \in S : \A y \in S : x <= y
Max(S) == CHOOSE x \in S : \A y \in S : x >= y

\* data.response.match(/\{[\s\S]*\}/): the span from the first "{" to the last "}"
\* after it, or <<>> for null (a match holds two characters at least)
jsonMatch(text) ==
    LET opens == {i \in 1..Len(text) : text[i] = "{"}
        closes == {j \in 1..Len(text) : text[j] = "}" /\ opens # {} /\ j > Min(opens)}
    IN IF opens = {} \/ closes = {} THEN <<>> ELSE SubSeq(text, Min(opens), Max(closes))

\* JSON.parse(text), for texts made of objects, arrays, strings without
\* escapes, unsigned integers, null, true and false: [threw |-> TRUE] for a
\* SyntaxError. Every parser inside returns [ok, next, value]: next is the
\* position after what it consumed.
JSONparse(t) ==
    LET Failed == [ok |-> FALSE]
        Parsed(next, value) == [ok |-> TRUE, next |-> next, value |-> value]
        At(i, c) == i <= Len(t) /\ t[i] = c
        StartsWith(i, word) ==
            /\ i + Len(word) - 1 <= Len(t)
            /\ \A k \in 1..Len(word) : t[i + k - 1] = word[k]
        RECURSIVE SkipWhitespace(_)
        SkipWhitespace(i) ==
            IF i <= Len(t) /\ t[i] \in Whitespace THEN SkipWhitespace(i + 1) ELSE i
        RECURSIVE DigitsEnd(_)
        DigitsEnd(i) == IF i <= Len(t) /\ IsDigit(t[i]) THEN DigitsEnd(i + 1) ELSE i
        ParseString(i) ==
            IF ~At(i, "\"") THEN Failed
            ELSE LET ends == {j \in (i + 1)..Len(t) : t[j] = "\""}
                 IN IF ends = {} THEN Failed
                    ELSE Parsed(Min(ends) + 1, StringOf(SubSeq(t, i + 1, Min(ends) - 1)))
        ParseNumber(i) ==
            IF ~(i <= Len(t) /\ IsDigit(t[i])) THEN Failed
            ELSE IF t[i] = "0" /\ DigitsEnd(i) > i + 1 THEN Failed
            ELSE Parsed(DigitsEnd(i), ParseDigits(SubSeq(t, i, DigitsEnd(i) - 1), 0))
        RECURSIVE ParseValue(_), ParseMembers(_, _), ParseElements(_, _)
        \* the members of an object from position i on, after "{" or ","
        ParseMembers(i, acc) ==
            LET key == ParseString(i) IN
            IF ~key.ok THEN Failed
            ELSE LET colon == SkipWhitespace(key.next) IN
            IF ~At(colon, ":") THEN Failed
            ELSE LET val == ParseValue(SkipWhitespace(colon + 1)) IN
            IF ~val.ok THEN Failed
            ELSE LET after == SkipWhitespace(val.next)
                     obj == Spread(acc, [k \in {key.value} |-> val.value])
                 IN IF At(after, "}") THEN Parsed(after + 1, obj)
                    ELSE IF At(after, ",") THEN ParseMembers(SkipWhitespace(after + 1), obj)
                    ELSE Failed
        \* the elements of an array from position i on, after "[" or ","
        ParseElements(i, acc) ==
            LET val == ParseValue(i) IN
            IF ~val.ok THEN Failed
            ELSE LET after == SkipWhitespace(val.next)
                     arr == Append(acc, val.value)
                 IN IF At(after, "]") THEN Parsed(after + 1, arr)
                    ELSE IF At(after, ",") THEN ParseElements(SkipWhitespace(after + 1), arr)
                    ELSE Failed
        ParseValue(i) ==
            IF At(i, "{") THEN
                LET first == SkipWhitespace(i + 1)
                IN IF At(first, "}") THEN Parsed(first + 1, NoBody)
                   ELSE ParseMembers(first, NoBody)
            ELSE IF At(i, "[") THEN
                LET first == SkipWhitespace(i + 1)
                IN IF At(first, "]") THEN Parsed(first + 1, <<>>)
                   ELSE ParseElements(first, <<>>)
            ELSE IF At(i, "\"") THEN ParseString(i)
            ELSE IF StartsWith(i, <<"n", "u", "l", "l">>) THEN Parsed(i + 4, Null)
            ELSE IF StartsWith(i, <<"t", "r", "u", "e">>) THEN Parsed(i + 4, TRUE)
            ELSE IF StartsWith(i, <<"f", "a", "l", "s", "e">>) THEN Parsed(i + 5, FALSE)
            ELSE ParseNumber(i)
        val == ParseValue(SkipWhitespace(1))
    IN IF val.ok /\ SkipWhitespace(val.next) = Len(t) + 1
       THEN Returned(val.value)
       ELSE Thrown

parseTextResponse(text) ==
    LET \* text.match(/word[:\s]+(group)/i)[1], or [found |-> FALSE] for null.
        \* The word is given in lower case; GroupAt(k) is the text the group
        \* matches when it starts at position k, <<>> when it cannot start
        \* there. The leftmost word wins; its separators are taken greedily
        \* and given back one by one.
        matchGroup(word, GroupAt(_)) ==
            LET WordAt(i) ==
                    /\ i + Len(word) - 1 <= Len(text)
                    /\ \A k \in 1..Len(word) : LowerChar(text[i + k - 1]) = word[k]
                Separator(c) == c = ":" \/ c \in Whitespace
                SeparatorsEnd(s) ==
                    Min({j \in s..(Len(text) + 1) :
                             j = Len(text) + 1 \/ ~Separator(text[j])})
                GroupStarts(i) ==
                    IF ~WordAt(i) THEN {}
                    ELSE {k \in (i + Len(word) + 1)..SeparatorsEnd(i + Len(word)) :
                              k <= Len(text) /\ GroupAt(k) # <<>>}
                at == {i \in 1..Len(text) : GroupStarts(i) # {}}
            IN IF at = {} THEN [found |-> FALSE]
               ELSE [found |-> TRUE, group |-> GroupAt(Max(GroupStarts(Min(at))))]
        \* the longest run of characters of a class from position k on
        Run(k, InClass(_)) ==
            SubSeq(text, k, Min({j \in k..(Len(text) + 1) :
                                     j = Len(text) + 1 \/ ~InClass(text[j])}) - 1)
        \* ([A-Z0-9\-\s]+) under the i flag
        PlateClass(c) ==
            \/ \E k \in 1..26 : LowerLetters[k] = LowerChar(c)
            \/ IsDigit(c)
            \/ c = "-"
            \/ c \in Whitespace
        Plate(k) == Run(k, PlateClass)
        \* ([^.\n]+)
        DamageClass(c) == c \notin {".", "\n"}
        Damage(k) == Run(k, DamageClass)
        \* (excellent|good|fair|poor) under the i flag
        Words == {<<"e", "x", "c", "e", "l", "l", "e", "n", "t">>, <<"g", "o", "o", "d">>,
                  <<"f", "a", "i", "r">>, <<"p", "o", "o", "r">>}
        IsWordAt(k, w) ==
            /\ k + Len(w) - 1 <= Len(text)
            /\ toLowerCase(SubSeq(text, k, k + Len(w) - 1)) = w
        Condition(k) ==
            IF \E w \in Words : IsWordAt(k, w)
            THEN LET w == CHOOSE w \in Words : IsWordAt(k, w)
                 IN SubSeq(text, k, k + Len(w) - 1)
            ELSE <<>>
        \* String.prototype.trim
        trim(chars) ==
            LET inside == {i \in 1..Len(chars) : chars[i] \notin Whitespace}
            IN IF inside = {} THEN <<>> ELSE SubSeq(chars, Min(inside), Max(inside))
        licensePlateMatch ==
            matchGroup(<<"l", "i", "c", "e", "n", "s", "e", " ", "p", "l", "a", "t", "e">>,
                       Plate)
        damageMatch == matchGroup(<<"d", "a", "m", "a", "g", "e">>, Damage)
        interiorMatch ==
            matchGroup(<<"i", "n", "t", "e", "r", "i", "o", "r">>, Condition)
        exteriorMatch ==
            matchGroup(<<"e", "x", "t", "e", "r", "i", "o", "r">>, Condition)
        r1 == IF licensePlateMatch.found
              THEN [licensePlate |-> StringOf(trim(licensePlateMatch.group))] ELSE NoBody
        r2 == IF damageMatch.found
              THEN Spread(r1, [damage |-> StringOf(trim(damageMatch.group))]) ELSE r1
        r3 == IF interiorMatch.found
              THEN Spread(r2, [interior |-> StringOf(toLowerCase(interiorMatch.group))])
              ELSE r2
    IN IF exteriorMatch.found
       THEN Spread(r3, [exterior |-> StringOf(toLowerCase(exteriorMatch.group))]) ELSE r3

\* the result with the parsed keys spread last
VisionAnalysisResultParsedLast(extractedData, confidence, response) ==
    Spread([confidence |-> confidence, extractedText |-> response, rawResponse |-> response],
           extractedData)

\* { ...extractedData, confidence, extractedText: data.response, rawResponse: data.response }
VisionAnalysisResult(extractedData, confidence, response) ==
    Spread(extractedData,
           [confidence |-> confidence, extractedText |-> response, rawResponse |-> response])

\* analyzeVehicleImage from the response text on
analyzeResponse(text) ==
    LET jsonSpan == jsonMatch(text)
        parsed == JSONparse(jsonSpan)
    IN IF jsonSpan = <<>> THEN VisionAnalysisResult(NoBody, 50, StringOf(text))
       ELSE IF parsed.threw
       THEN VisionAnalysisResult(parseTextResponse(text), 60, StringOf(text))
       ELSE VisionAnalysisResult(parsed.value, 85, StringOf(text))

\* response texts in three parts: what comes before the braces, the braces,
\* what comes after
ResponseParts ==
    [leads |-> <<
        \* nothing
        <<>>,
        \* Here is the analysis: 
        <<"H", "e", "r", "e", " ", "i", "s", " ", "t", "h", "e", " ", "a", "n",
          "a", "l", "y", "s", "i", "s", ":", " ">>,
        \* License plate: ABC-123\nDamage: dent on door. Interior: Good\n
        <<"L", "i", "c", "e", "n", "s", "e", " ", "p", "l", "a", "t", "e", ":",
          " ", "A", "B", "C", "-", "1", "2", "3", "\n", "D", "a", "m", "a",
          "g", "e", ":", " ", "d", "e", "n", "t", " ", "o", "n", " ", "d", "o",
          "o", "r", ".", " ", "I", "n", "t", "e", "r", "i", "o", "r", ":", " ",
          "G", "o", "o", "d", "\n">> >>,
     spans |-> <<
        \* nothing
        <<>>,
        \* {"licensePlate":"XYZ 789","damage":"none","year":2015,"interior":null}
        <<"{", "\"", "l", "i", "c", "e", "n", "s", "e", "P", "l", "a", "t",
          "e", "\"", ":", "\"", "X", "Y", "Z", " ", "7", "8", "9", "\"", ",",
          "\"", "d", "a", "m", "a", "g", "e", "\"", ":", "\"", "n", "o", "n",
          "e", "\"", ",", "\"", "y", "e", "a", "r", "\"", ":", "2", "0", "1",
          "5", ",", "\"", "i", "n", "t", "e", "r", "i", "o", "r", "\"", ":",
          "n", "u", "l", "l", "}">>,
        \* {"confidence":10,"extractedText":"x","rawResponse":"y","exterior":"good"}
        <<"{", "\"", "c", "o", "n", "f", "i", "d", "e", "n", "c", "e", "\"",
          ":", "1", "0", ",", "\"", "e", "x", "t", "r", "a", "c", "t", "e",
          "d", "T", "e", "x", "t", "\"", ":", "\"", "x", "\"", ",", "\"", "r",
          "a", "w", "R", "e", "s", "p", "o", "n", "s", "e", "\"", ":", "\"",
          "y", "\"", ",", "\"", "e", "x", "t", "e", "r", "i", "o", "r", "\"",
          ":", "\"", "g", "o", "o", "d", "\"", "}">>,
        \* {}
        <<"{", "}">>,
        \* {exterior: fair, damage: scratched bumper}
        <<"{", "e", "x", "t", "e", "r", "i", "o", "r", ":", " ", "f", "a", "i",
          "r", ",", " ", "d", "a", "m", "a", "g", "e", ":", " ", "s", "c", "r",
          "a", "t", "c", "h", "e", "d", " ", "b", "u", "m", "p", "e", "r",
          "}">>,
        \* { "features": ["sunroof", "gps"],\n  "vehicleDetails": {"make": "Honda"} }
        <<"{", " ", "\"", "f", "e", "a", "t", "u", "r", "e", "s", "\"", ":",
          " ", "[", "\"", "s", "u", "n", "r", "o", "o", "f", "\"", ",", " ",
          "\"", "g", "p", "s", "\"", "]", ",", "\n", " ", " ", "\"", "v", "e",
          "h", "i", "c", "l", "e", "D", "e", "t", "a", "i", "l", "s", "\"",
          ":", " ", "{", "\"", "m", "a", "k", "e", "\"", ":", " ", "\"", "H",
          "o", "n", "d", "a", "\"", "}", " ", "}">> >>,
     trails |-> <<
        \* nothing
        <<>>,
        \*  Hope this helps.
        <<" ", "H", "o", "p", "e", " ", "t", "h", "i", "s", " ", "h", "e", "l",
          "p", "s", ".">>,
        \*  }
        <<" ", "}">>,
        \*  {"note":"second"}
        <<" ", "{", "\"", "n", "o", "t", "e", "\"", ":", "\"", "s", "e", "c",
          "o", "n", "d", "\"", "}">> >>]

ResponseTexts ==
    {ResponseParts.leads[l] \o ResponseParts.spans[s] \o ResponseParts.trails[t] :
         l \in 1..3, s \in 1..6, t \in 1..4}

\* analyzeVehicleImage on every response text
aiResultOf == [text \in ResponseTexts |-> analyzeResponse(text)]

\* the texts answered to requests that name a vehicle
StoredTexts ==
    {ResponseParts.spans[2],
     ResponseParts.leads[3] \o ResponseParts.spans[5]}

\* no inference response analyzed yet
AnIdle == [pc |-> "idle", body |-> NoBody, text |-> <<>>]

\* no health check requested yet
\* what GET /api/tags of the inference endpoint answers at a given moment: no
\* connection, a non-success status, a body that is not JSON, a JSON body
\* without models, or a JSON body listing the models
Endpoints ==
    {[kind |-> "unreachable", models |-> <<>>],
     [kind |-> "status404", models |-> <<>>],
     [kind |-> "status500", models |-> <<>>],
     [kind |-> "text", models |-> <<>>],
     [kind |-> "nomodels", models |-> <<>>],
     [kind |-> "models", models |-> <<>>],
     [kind |-> "models", models |-> <<"llava">>],
     [kind |-> "models", models |-> <<"mistral">>],
     [kind |-> "models", models |-> <<"llava", "mistral">>]}

\* checkHealth: response.ok, false when fetch throws
checkHealth(endpoint) == endpoint.kind \notin {"unreachable", "status404", "status500"}

\* listModels: the names of data.models, [] on every failure
listModels(endpoint) == IF endpoint.kind = "models" THEN endpoint.models ELSE <<>>

HcIdle ==
    [pc |-> "idle", endpoint |-> [kind |-> "unreachable", models |-> <<>>],
     isHealthy |-> FALSE]

(***************************************************************************)
(* Initial state: new MemStorage(), no request handled yet.                *)
(***************************************************************************)
Init ==
    /\ vehicles = <<>>
    /\ listings = <<>>
    /\ nextId = 1
    /\ now = 0
    /\ req = [op |-> "none", id |-> 0, body |-> NoBody]
    /\ resp = [status |-> 0, body |-> NoBody]
    /\ up = UpIdle
    /\ vin = VinIdle("")
    /\ aiExtractions = <<>>
    /\ an = AnIdle
    /\ hc = HcIdle
    /\ inflight = <<>>
    /\ home = [selectedVehicle |-> NoBody, uploadedImages |-> <<>>, aiExtractions |-> <<>>]
    /\ listingPreview = [listingData |-> NoBody, requests |-> <<>>, stale |-> FALSE]
    /\ imageUpload = [uploadedImages |-> <<>>]

Message(text) == [message |-> text]

\* the clock advances between two requests
Tick ==
    /\ now < MaxClock
    /\ now' = now + 1
    /\ UNCHANGED <<vehicles, listings, nextId, req, resp, up, vin, aiExtractions, an, hc, inflight, home, listingPreview, imageUpload>>

\* GET /api/vehicles
GetVehicles ==
    /\ req' = [op |-> "GET /api/vehicles", id |-> 0, body |-> NoBody]
    /\ resp' = [status |-> 200, body |-> getAllVehicles]
    /\ UNCHANGED <<vehicles, listings, nextId, now, up, vin, aiExtractions, an, hc, inflight, home, listingPreview, imageUpload>>

\* GET /api/vehicles/:id
GetVehicle(id) ==
    /\ req' = [op |-> "GET /api/vehicles/:id", id |-> id, body |-> NoBody]
    /\ resp' = IF MapHas(vehicles, id)
               THEN [status |-> 200, body |-> MapGet(vehicles, id)]
               ELSE [status |-> 404, body |-> Message("Vehicle not found")]
    /\ UNCHANGED <<vehicles, listings, nextId, now, up, vin, aiExtractions, an, hc, inflight, home, listingPreview, imageUpload>>

\* POST /api/vehicles
PostVehicle(body) ==
    /\ nextId <= MaxIds
    /\ req' = [op |-> "POST /api/vehicles", id |-> 0, body |-> body]
    /\ IF VehicleSchemaOk(body, FALSE)
       THEN LET vehicle == NewVehicle(VehicleParsed(body), nextId, now)
            IN /\ vehicles' = MapSet(vehicles, nextId, vehicle)
               /\ nextId' = nextId + 1
               /\ resp' = [status |-> 201, body |-> vehicle]
       ELSE /\ resp' = [status |-> 400, body |-> Message("ZodError")]
            /\ UNCHANGED <<vehicles, nextId>>
    /\ UNCHANGED <<listings, now, up, vin, aiExtractions, an, hc, inflight, home, listingPreview, imageUpload>>

\* a PUT that looks the identifier up before it validates the body
PutVehicleLookupFirst(id, body) ==
    /\ req' = [op |-> "PUT /api/vehicles/:id", id |-> id, body |-> body]
    /\ IF ~MapHas(vehicles, id)
       THEN /\ resp' = [status |-> 404, body |-> Message("Vehicle not found")]
            /\ UNCHANGED vehicles
       ELSE IF ~VehicleSchemaOk(body, TRUE)
       THEN /\ resp' = [status |-> 400, body |-> Message("ZodError")]
            /\ UNCHANGED vehicles
       ELSE LET updated == UpdatedVehicle(MapGet(vehicles, id), VehicleParsed(body), now)
            IN /\ vehicles' = MapSet(vehicles, id, updated)
               /\ resp' = [status |-> 200, body |-> updated]
    /\ UNCHANGED <<listings, nextId, now, up, vin, aiExtractions, an, hc, inflight, home, listingPreview, imageUpload>>

\* a PUT that hands the request body to the store as it came, unknown keys included
PutVehicleUnparsed(id, body) ==
    /\ req' = [op |-> "PUT /api/vehicles/:id", id |-> id, body |-> body]
    /\ IF ~VehicleSchemaOk(body, TRUE)
       THEN /\ resp' = [status |-> 400, body |-> Message("ZodError")]
            /\ UNCHANGED vehicles
       ELSE IF ~MapHas(vehicles, id)
       THEN /\ resp' = [status |-> 404, body |-> Message("Vehicle not found")]
            /\ UNCHANGED vehicles
       ELSE LET updated == UpdatedVehicle(MapGet(vehicles, id), body, now)
            IN /\ vehicles' = MapSet(vehicles, id, updated)
               /\ resp' = [status |-> 200, body |-> updated]
    /\ UNCHANGED <<listings, nextId, now, up, vin, aiExtractions, an, hc, inflight, home, listingPreview, imageUpload>>

\* PUT /api/vehicles/:id
PutVehicle(id, body) ==
    /\ req' = [op |-> "PUT /api/vehicles/:id", id |-> id, body |-> body]
    /\ IF ~VehicleSchemaOk(body, TRUE)
       THEN /\ resp' = [status |-> 400, body |-> Message("ZodError")]
            /\ UNCHANGED vehicles
       ELSE IF ~MapHas(vehicles, id)
       THEN /\ resp' = [status |-> 404, body |-> Message("Vehicle not found")]
            /\ UNCHANGED vehicles
       ELSE LET updated == UpdatedVehicle(MapGet(vehicles, id), VehicleParsed(body), now)
            IN /\ vehicles' = MapSet(vehicles, id, updated)
               /\ resp' = [status |-> 200, body |-> updated]
    /\ UNCHANGED <<listings, nextId, now, up, vin, aiExtractions, an, hc, inflight, home, listingPreview, imageUpload>>

\* a delete that also drops the listings and the extractions of the vehicle
DeleteVehicleCascade(id) ==
    /\ req' = [op |-> "DELETE /api/vehicles/:id", id |-> id, body |-> NoBody]
    /\ vehicles' = MapDelete(vehicles, id)
    /\ listings' = SelectSeq(listings, LAMBDA l : ~(Has(l, "vehicleId") /\ l.vehicleId = id))
    /\ aiExtractions' = SelectSeq(aiExtractions, LAMBDA e : e.vehicleId # id)
    /\ resp' = IF MapHas(vehicles, id)
               THEN [status |-> 204, body |-> NoBody]
               ELSE [status |-> 404, body |-> Message("Vehicle not found")]
    /\ UNCHANGED <<nextId, now, up, vin, an, hc, inflight, home, listingPreview, imageUpload>>

\* DELETE /api/vehicles/:id
DeleteVehicle(id) ==
    /\ req' = [op |-> "DELETE /api/vehicles/:id", id |-> id, body |-> NoBody]
    /\ vehicles' = MapDelete(vehicles, id)
    /\ resp' = IF MapHas(vehicles, id)
               THEN [status |-> 204, body |-> NoBody]
               ELSE [status |-> 404, body |-> Message("Vehicle not found")]
    /\ UNCHANGED <<listings, nextId, now, up, vin, aiExtractions, an, hc, inflight, home, listingPreview, imageUpload>>

\* GET /api/listings
GetListings ==
    /\ req' = [op |-> "GET /api/listings", id |-> 0, body |-> NoBody]
    /\ resp' = [status |-> 200, body |-> getAllListings]
    /\ UNCHANGED <<vehicles, listings, nextId, now, up, vin, aiExtractions, an, hc, inflight, home, listingPreview, imageUpload>>

\* POST /api/listings
PostListing(body) ==
    /\ nextId <= MaxIds
    /\ req' = [op |-> "POST /api/listings", id |-> 0, body |-> body]
    /\ IF ListingSchemaOk(body)
       THEN LET listing == NewListing(ListingParsed(body), nextId, now)
            IN /\ listings' = MapSet(listings, nextId, listing)
               /\ nextId' = nextId + 1
               /\ resp' = [status |-> 201, body |-> listing]
       ELSE /\ resp' = [status |-> 400, body |-> Message("ZodError")]
            /\ UNCHANGED <<listings, nextId>>
    /\ UNCHANGED <<vehicles, now, up, vin, aiExtractions, an, hc, inflight, home, listingPreview, imageUpload>>

Ids == 1..MaxIds

Next ==
    \/ Tick
    \/ GetVehicles
    \/ \E id \in Ids : GetVehicle(id)
    \/ \E body \in PostedBodies : PostVehicle(body)
    \/ \E id \in Ids, body \in VehiclePatches : PutVehicle(id, body)
    \/ \E id \in Ids : DeleteVehicle(id)
    \/ GetListings
    \/ \E body \in ListingBodies : PostListing(body)

Spec == Init /\ [][Next]_vars

\* POST /api/vehicles with every body of VehicleBodies, between reads and deletes
NextPost ==
    \/ GetVehicles
    \/ \E id \in Ids : GetVehicle(id)
    \/ \E body \in VehicleBodies : PostVehicle(body)
    \/ \E id \in Ids : DeleteVehicle(id)

SpecPost == Init /\ [][NextPost]_vars

(***************************************************************************)
(* POST /api/images/upload, one request: multer, then the loop over        *)
(* req.files with one awaited inference call per image.                    *)
(***************************************************************************)
\* the request arrives: multer's upload.array("images", 10) runs before the handler
UploadReceive(files) ==
    /\ up.pc = "idle"
    /\ up' = IF Len(files) > MaxFiles \/ \E i \in 1..Len(files) : ~MulterAccepts(files[i])
             THEN [up EXCEPT !.pc = "done", !.files = files, !.status = 500]
             ELSE IF Len(files) = 0
             THEN [up EXCEPT !.pc = "done", !.files = files, !.status = 400]
             ELSE [up EXCEPT !.pc = "image", !.files = files, !.i = 1]
    /\ UNCHANGED <<vehicles, listings, nextId, now, req, resp, vin, aiExtractions, an, hc, inflight, home, listingPreview, imageUpload>>

\* the loop body up to the inference call: validate, store the file, push the
\* processed image, issue the call; a throw ends the request with 400
ProcessImage(written) ==
    /\ up.pc = "image"
    /\ LET file == up.files[up.i]
           image == processUploadedImage(file, Cardinality(up.disk) + 1)
       IN up' = IF validateImageFile(file.mimetype, file.size) # ""
                THEN [up EXCEPT !.pc = "done", !.status = 400]
                ELSE IF ~written
                THEN [up EXCEPT !.pc = "done", !.status = 400, !.diskError = TRUE]
                ELSE [up EXCEPT !.pc = "inference",
                                !.disk = @ \cup {image.filename},
                                !.processedImages = Append(@, image),
                                !.calls = Append(@, [image |-> up.i, outcome |-> "pending"])]
    /\ UNCHANGED <<vehicles, listings, nextId, now, req, resp, vin, aiExtractions, an, hc, inflight, home, listingPreview, imageUpload>>

\* the inference call awaited outside any try/catch: a failure ends the request
InferenceReturnAborts(outcome) ==
    /\ up.pc = "inference"
    /\ LET image == up.processedImages[Len(up.processedImages)]
           aiResult == analyzeVehicleImage(outcome)
           settled == [up EXCEPT !.calls[Len(up.calls)].outcome = outcome]
           pushed == [settled EXCEPT !.aiExtractions =
                         Append(@, [imageUrl |-> image.url,
                                    extractedText |-> aiResult.extractedText,
                                    confidence |-> aiResult.confidence,
                                    extractedData |-> aiResult])]
       IN up' = IF analyzeThrows(outcome)
                THEN [settled EXCEPT !.pc = "done", !.status = 400]
                ELSE IF up.i < Len(up.files)
                THEN [pushed EXCEPT !.pc = "image", !.i = up.i + 1]
                ELSE [pushed EXCEPT !.pc = "done", !.status = 200,
                                    !.images = pushed.processedImages,
                                    !.extractions = pushed.aiExtractions]
    /\ UNCHANGED <<vehicles, listings, nextId, now, req, resp, vin, aiExtractions, an, hc, inflight, home, listingPreview, imageUpload>>

\* a failed inference call is issued again for the same image
InferenceReturnRetries(outcome) ==
    /\ up.pc = "inference"
    /\ LET image == up.processedImages[Len(up.processedImages)]
           aiResult == analyzeVehicleImage(outcome)
           settled == [up EXCEPT !.calls[Len(up.calls)].outcome = outcome]
           pushed == [settled EXCEPT !.aiExtractions =
                         Append(@, [imageUrl |-> image.url,
                                    extractedText |-> aiResult.extractedText,
                                    confidence |-> aiResult.confidence,
                                    extractedData |-> aiResult])]
       IN up' = IF analyzeThrows(outcome)
                THEN [settled EXCEPT !.calls = Append(@, [image |-> up.i, outcome |-> "pending"])]
                ELSE IF up.i < Len(up.files)
                THEN [pushed EXCEPT !.pc = "image", !.i = up.i + 1]
                ELSE [pushed EXCEPT !.pc = "done", !.status = 200,
                                    !.images = pushed.processedImages,
                                    !.extractions = pushed.aiExtractions]
    /\ UNCHANGED <<vehicles, listings, nextId, now, req, resp, vin, aiExtractions, an, hc, inflight, home, listingPreview, imageUpload>>

\* the extraction of an image is put in front of the extractions before it
InferenceReturnPrepends(outcome) ==
    /\ up.pc = "inference"
    /\ LET image == up.processedImages[Len(up.processedImages)]
           aiResult == analyzeVehicleImage(outcome)
           extractions ==
               IF analyzeThrows(outcome)
               THEN up.aiExtractions
               ELSE <<[imageUrl |-> image.url,
                       extractedText |-> aiResult.extractedText,
                       confidence |-> aiResult.confidence,
                       extractedData |-> aiResult]>> \o up.aiExtractions
           settled == [up EXCEPT !.aiExtractions = extractions,
                                 !.calls[Len(up.calls)].outcome = outcome]
       IN up' = IF up.i < Len(up.files)
                THEN [settled EXCEPT !.pc = "image", !.i = up.i + 1]
                ELSE [settled EXCEPT !.pc = "done", !.status = 200,
                                     !.images = settled.processedImages,
                                     !.extractions = extractions]
    /\ UNCHANGED <<vehicles, listings, nextId, now, req, resp, vin, aiExtractions, an, hc, inflight, home, listingPreview, imageUpload>>

\* the awaited inference call settles; after the last image the response is sent
InferenceReturn(outcome) ==
    /\ up.pc = "inference"
    /\ LET image == up.processedImages[Len(up.processedImages)]
           aiResult == analyzeVehicleImage(outcome)
           extractions ==
               IF analyzeThrows(outcome)
               THEN up.aiExtractions
               ELSE Append(up.aiExtractions,
                           [imageUrl |-> image.url,
                            extractedText |-> aiResult.extractedText,
                            confidence |-> aiResult.confidence,
                            extractedData |-> aiResult])
           settled == [up EXCEPT !.aiExtractions = extractions,
                                 !.calls[Len(up.calls)].outcome = outcome]
       IN up' = IF up.i < Len(up.files)
                THEN [settled EXCEPT !.pc = "image", !.i = up.i + 1]
                ELSE [settled EXCEPT !.pc = "done", !.status = 200,
                                     !.images = settled.processedImages,
                                     !.extractions = extractions]
    /\ UNCHANGED <<vehicles, listings, nextId, now, req, resp, vin, aiExtractions, an, hc, inflight, home, listingPreview, imageUpload>>

NextUpload ==
    \/ \E files \in SeqsUpTo(FileKinds, MaxBatch) : UploadReceive(files)
    \/ \E written \in BOOLEAN : ProcessImage(written)
    \/ \E outcome \in InferenceOutcomes : InferenceReturn(outcome)

SpecUpload == Init /\ [][NextUpload]_vars

(***************************************************************************)
(* GET /api/vin/:vin, one request.                                         *)
(***************************************************************************)
\* the service is constructed with the provider key of the environment
InitVin ==
    /\ vehicles = <<>>
    /\ listings = <<>>
    /\ nextId = 1
    /\ now = 0
    /\ req = [op |-> "none", id |-> 0, body |-> NoBody]
    /\ resp = [status |-> 0, body |-> NoBody]
    /\ up = UpIdle
    /\ vin \in {VinIdle(apiKey) : apiKey \in ApiKeys}
    /\ aiExtractions = <<>>
    /\ an = AnIdle
    /\ hc = HcIdle
    /\ inflight = <<>>
    /\ home = [selectedVehicle |-> NoBody, uploadedImages |-> <<>>, aiExtractions |-> <<>>]
    /\ listingPreview = [listingData |-> NoBody, requests |-> <<>>, stale |-> FALSE]
    /\ imageUpload = [uploadedImages |-> <<>>]

\* the route calls lookupVin: a VIN that fails isValidVin is answered at once,
\* any other is sent to the registry and the handler waits for the fetch
VinReceive(v) ==
    /\ vin.pc \in {"idle", "done"}
    /\ vin.lookups < MaxLookups
    /\ LET fresh == [VinIdle(vin.apiKey) EXCEPT !.vin = v, !.lookups = vin.lookups + 1]
       IN vin' = IF ~isValidVin(v)
                 THEN [fresh EXCEPT !.pc = "done", !.status = 200,
                                    !.result = [success |-> FALSE,
                                                error |-> "Invalid VIN format. VIN must be 17 characters."]]
                 ELSE [fresh EXCEPT !.pc = "fetching", !.calls = 1]
    /\ UNCHANGED <<vehicles, listings, nextId, now, req, resp, up, aiExtractions, an, hc, inflight, home, listingPreview, imageUpload>>

\* the fetch settles; lookupVin finishes and the route answers
RegistryAnswer(answer) ==
    /\ vin.pc = "fetching"
    /\ LET r == lookupVin(answer, vin.apiKey)
           tried == IF commercialAttempted(answer, vin.apiKey) THEN 1 ELSE 0
       IN vin' = IF r.threw
                 THEN [vin EXCEPT !.pc = "done", !.answer = answer, !.status = 500,
                                  !.result = [success |-> FALSE, message |-> "VIN lookup service error"]]
                 ELSE [vin EXCEPT !.pc = "done", !.answer = answer, !.status = 200,
                                  !.commercial = @ + tried,
                                  !.result = r.value]
    /\ UNCHANGED <<vehicles, listings, nextId, now, req, resp, up, aiExtractions, an, hc, inflight, home, listingPreview, imageUpload>>

NextVin ==
    \/ \E v \in Vins : VinReceive(v)
    \/ \E answer \in RegistryAnswers : RegistryAnswer(answer)

SpecVin == InitVin /\ [][NextVin]_vars

(***************************************************************************)
(* POST /api/images/analyze: the handler waits for the inference endpoint  *)
(* between AnalyzeReceive and AnalyzeResponds or AnalyzeFails.             *)
(***************************************************************************)
AnalyzeBodies ==
    {NoBody, [imageBase64 |-> ""], [imageBase64 |-> "aGk="],
     [imageBase64 |-> "aGk=", vehicleId |-> 1]}

\* createAiExtraction
NewAiExtraction(insertExtraction, id, t) ==
    Spread(insertExtraction,
           [id |-> id, createdAt |-> t,
            vehicleId |-> IF Has(insertExtraction, "vehicleId")
                          THEN insertExtraction.vehicleId ELSE Null])

AnalyzeReceive(body) ==
    /\ an.pc = "idle"
    /\ Has(body, "vehicleId") => nextId <= MaxIds
    /\ req' = [op |-> "POST /api/images/analyze", id |-> 0, body |-> body]
    /\ IF ~Has(body, "imageBase64") \/ body.imageBase64 = ""
       THEN /\ resp' = [status |-> 400, body |-> Message("Image data is required")]
            /\ an' = AnIdle
       ELSE /\ resp' = [status |-> 0, body |-> NoBody]
            /\ an' = [pc |-> "inference", body |-> body, text |-> <<>>]
    /\ UNCHANGED <<vehicles, listings, nextId, now, up, vin, aiExtractions, hc, inflight, home, listingPreview, imageUpload>>

\* a handler that stores the extraction whether or not the request names a vehicle
AnalyzeRespondsAlwaysStores(text) ==
    /\ an.pc = "inference"
    /\ LET aiResult == aiResultOf[text]
       IN /\ aiExtractions' =
                 MapSet(aiExtractions, nextId,
                        NewAiExtraction([imageUrl |-> "base64_image",
                                         extractedText |-> aiResult.extractedText,
                                         confidence |-> aiResult.confidence,
                                         extractedData |-> aiResult],
                                        nextId, now))
          /\ nextId' = nextId + 1
          /\ resp' = [status |-> 200, body |-> aiResult]
    /\ req' = [op |-> "POST /api/images/analyze", id |-> 0, body |-> an.body]
    /\ an' = [pc |-> "idle", body |-> an.body, text |-> text]
    /\ UNCHANGED <<vehicles, listings, now, up, vin, hc, inflight, home, listingPreview, imageUpload>>

\* the endpoint answers with a response text; if (vehicleId) is false for a
\* missing identifier and for 0
AnalyzeResponds(text) ==
    /\ an.pc = "inference"
    /\ LET aiResult == aiResultOf[text]
       IN /\ IF Has(an.body, "vehicleId") /\ an.body.vehicleId # 0
             THEN /\ aiExtractions' =
                         MapSet(aiExtractions, nextId,
                                NewAiExtraction([vehicleId |-> an.body.vehicleId,
                                                 imageUrl |-> "base64_image",
                                                 extractedText |-> aiResult.extractedText,
                                                 confidence |-> aiResult.confidence,
                                                 extractedData |-> aiResult],
                                                nextId, now))
                  /\ nextId' = nextId + 1
             ELSE UNCHANGED <<aiExtractions, nextId>>
          /\ resp' = [status |-> 200, body |-> aiResult]
    /\ req' = [op |-> "POST /api/images/analyze", id |-> 0, body |-> an.body]
    /\ an' = [pc |-> "idle", body |-> an.body, text |-> text]
    /\ UNCHANGED <<vehicles, listings, now, up, vin, hc, inflight, home, listingPreview, imageUpload>>

\* the endpoint is unreachable, answers with a non-success status, or its
\* answer carries no response text: analyzeVehicleImage throws an Error
AnalyzeFails(outcome) ==
    /\ an.pc = "inference"
    /\ analyzeThrows(outcome)
    /\ req' = [op |-> "POST /api/images/analyze", id |-> 0, body |-> an.body]
    /\ resp' = [status |-> 400, body |-> Message("Failed to analyze image with Ollama")]
    /\ an' = AnIdle
    /\ UNCHANGED <<vehicles, listings, nextId, now, up, vin, aiExtractions, hc, inflight, home, listingPreview, imageUpload>>

NextAnalyze ==
    \/ \E body \in AnalyzeBodies : AnalyzeReceive(body)
    \/ \E text \in IF Has(an.body, "vehicleId") THEN StoredTexts ELSE ResponseTexts :
           AnalyzeResponds(text)
    \/ \E outcome \in InferenceOutcomes : AnalyzeFails(outcome)

SpecAnalyze == Init /\ [][NextAnalyze]_vars

(***************************************************************************)
(* GET /api/ollama/health: the handler waits for the endpoint twice, in    *)
(* checkHealth and in listModels; the endpoint changes when it likes.      *)
(***************************************************************************)
EndpointChanges(endpoint) ==
    /\ endpoint # hc.endpoint
    /\ hc' = [hc EXCEPT !.endpoint = endpoint]
    /\ UNCHANGED <<vehicles, listings, nextId, now, req, resp, up, vin, aiExtractions, an, inflight, home, listingPreview, imageUpload>>

HealthReceive ==
    /\ hc.pc = "idle"
    /\ req' = [op |-> "GET /api/ollama/health", id |-> 0, body |-> NoBody]
    /\ resp' = [status |-> 0, body |-> NoBody]
    /\ hc' = [hc EXCEPT !.pc = "checkHealth", !.isHealthy = FALSE]
    /\ UNCHANGED <<vehicles, listings, nextId, now, up, vin, aiExtractions, an, inflight, home, listingPreview, imageUpload>>

\* the fetch of checkHealth settles
HealthChecked ==
    /\ hc.pc = "checkHealth"
    /\ hc' = [hc EXCEPT !.pc = "listModels", !.isHealthy = checkHealth(hc.endpoint)]
    /\ UNCHANGED <<vehicles, listings, nextId, now, req, resp, up, vin, aiExtractions, an, inflight, home, listingPreview, imageUpload>>

\* the fetch of listModels settles and the handler answers
HealthListed ==
    /\ hc.pc = "listModels"
    /\ resp' = [status |-> 200,
                body |-> [healthy |-> hc.isHealthy,
                          models |-> listModels(hc.endpoint),
                          status |-> IF hc.isHealthy THEN "Local AI Ready"
                                     ELSE "Ollama not available"]]
    /\ hc' = [hc EXCEPT !.pc = "idle", !.isHealthy = FALSE]
    /\ UNCHANGED <<vehicles, listings, nextId, now, req, up, vin, aiExtractions, an, inflight, home, listingPreview, imageUpload>>

NextHealth ==
    \/ \E endpoint \in Endpoints : EndpointChanges(endpoint)
    \/ HealthReceive
    \/ HealthChecked
    \/ HealthListed

SpecHealth == Init /\ [][NextHealth]_vars

(***************************************************************************)
(* POST /api/vehicles and PUT /api/vehicles/:id with bodies at and beyond  *)
(* the limits of the schema.                                               *)
(***************************************************************************)
PutBodies ==
    {[year |-> 1900, condition |-> "fair"],
     [price |-> 999999, mileage |-> 999999, id |-> 7],
     [year |-> 1899], [year |-> CurrentYear + 2],
     [mileage |-> -1], [mileage |-> 1000000],
     [price |-> 0], [price |-> 1000000],
     [transmission |-> "semi-automatic"], [fuelType |-> "flex fuel"], [condition |-> "new"],
     [price |-> 500, year |-> 1899]}

NextPut ==
    \/ \E body \in PostedBodies : PostVehicle(body)
    \/ \E id \in Ids, body \in PutBodies : PutVehicle(id, body)

SpecPut == Init /\ [][NextPut]_vars

(***************************************************************************)
(* Listings and extractions of a vehicle: POST /api/listings/generate, the *)
(* per-vehicle reads of the store, and the routes that create and delete   *)
(* what they read.                                                         *)
(***************************************************************************)
\* getListingsByVehicle over the listing map m
getListingsByVehicle(m, vehicleId) ==
    SelectSeq(m, LAMBDA listing : Has(listing, "vehicleId") /\ listing.vehicleId = vehicleId)

\* getAiExtractionsByVehicle over the extraction map m
getAiExtractionsByVehicle(m, vehicleId) ==
    SelectSeq(m, LAMBDA extraction : extraction.vehicleId = vehicleId)

\* a generation that prints the price of the title digit by digit, ungrouped
generateListingContentPlainPrice(vehicle, platform) ==
    LET \* Number.prototype.toLocaleString for 0..999999: groups of three digits
        toLocaleString(n) ==
            IF n < 1000 THEN ToString(n)
            ELSE ToString(n \div 1000) \o ","
                 \o (IF n % 1000 < 10 THEN "00" ELSE IF n % 1000 < 100 THEN "0" ELSE "")
                 \o ToString(n % 1000)
        RECURSIVE Bullets(_)
        Bullets(fs) == IF fs = <<>> THEN "" ELSE "\n* " \o Head(fs) \o Bullets(Tail(fs))
        features == vehicle.features
        featuresText ==
            IF Len(features) > 0
            THEN "\n\nFeatures:\n* " \o Head(features) \o Bullets(Tail(features))
            ELSE ""
        title ==
            ToString(vehicle.year) \o " " \o vehicle.make \o " " \o vehicle.model
            \o (IF vehicle.trim # Null /\ vehicle.trim # "" THEN " " \o vehicle.trim ELSE "")
            \o " - $" \o ToString(vehicle.price)
        description ==
            vehicle.description \o featuresText
            \o "\n\nLocation: " \o vehicle.location
            \o "\nMileage: " \o toLocaleString(vehicle.mileage) \o " miles"
            \o "\nTransmission: " \o vehicle.transmission
            \o "\nFuel Type: " \o vehicle.fuelType
            \o "\nCondition: " \o vehicle.condition
            \o "\n\nSerious inquiries only. Cash, financing, or trade considered."
    IN [title |-> title,
        description |-> description,
        price |-> vehicle.price,
        location |-> vehicle.location,
        images |-> vehicle.images,
        features |-> vehicle.features,
        vehicleDetails |->
            [year |-> vehicle.year, make |-> vehicle.make, model |-> vehicle.model,
             trim |-> vehicle.trim, mileage |-> vehicle.mileage,
             transmission |-> vehicle.transmission, fuelType |-> vehicle.fuelType,
             condition |-> vehicle.condition]]

\* generateListingContent (the pictographs before the labels of the
\* description are left out)
generateListingContent(vehicle, platform) ==
    LET \* Number.prototype.toLocaleString for 0..999999: groups of three digits
        toLocaleString(n) ==
            IF n < 1000 THEN ToString(n)
            ELSE ToString(n \div 1000) \o ","
                 \o (IF n % 1000 < 10 THEN "00" ELSE IF n % 1000 < 100 THEN "0" ELSE "")
                 \o ToString(n % 1000)
        RECURSIVE Bullets(_)
        Bullets(fs) == IF fs = <<>> THEN "" ELSE "\n* " \o Head(fs) \o Bullets(Tail(fs))
        features == vehicle.features
        featuresText ==
            IF Len(features) > 0
            THEN "\n\nFeatures:\n* " \o Head(features) \o Bullets(Tail(features))
            ELSE ""
        title ==
            ToString(vehicle.year) \o " " \o vehicle.make \o " " \o vehicle.model
            \o (IF vehicle.trim # Null /\ vehicle.trim # "" THEN " " \o vehicle.trim ELSE "")
            \o " - $" \o toLocaleString(vehicle.price)
        description ==
            vehicle.description \o featuresText
            \o "\n\nLocation: " \o vehicle.location
            \o "\nMileage: " \o toLocaleString(vehicle.mileage) \o " miles"
            \o "\nTransmission: " \o vehicle.transmission
            \o "\nFuel Type: " \o vehicle.fuelType
            \o "\nCondition: " \o vehicle.condition
            \o "\n\nSerious inquiries only. Cash, financing, or trade considered."
    IN [title |-> title,
        description |-> description,
        price |-> vehicle.price,
        location |-> vehicle.location,
        images |-> vehicle.images,
        features |-> vehicle.features,
        vehicleDetails |->
            [year |-> vehicle.year, make |-> vehicle.make, model |-> vehicle.model,
             trim |-> vehicle.trim, mileage |-> vehicle.mileage,
             transmission |-> vehicle.transmission, fuelType |-> vehicle.fuelType,
             condition |-> vehicle.condition]]

\* listings in the store beyond which no listing is generated
MaxListings == 2

GenerateBodies ==
    {NoBody, [vehicleId |-> 1], [vehicleId |-> 2, platform |-> "craigslist"]}

\* a generate route that lists on facebook whatever platform is asked for
GenerateListingFacebookOnly(body) ==
    /\ Len(listings) < MaxListings
    /\ req' = [op |-> "POST /api/listings/generate", id |-> 0, body |-> body]
    /\ IF ~(Has(body, "vehicleId") /\ MapHas(vehicles, body.vehicleId))
       THEN /\ resp' = [status |-> 404, body |-> Message("Vehicle not found")]
            /\ UNCHANGED <<listings, nextId>>
       ELSE LET listingContent == generateListingContent(MapGet(vehicles, body.vehicleId), "facebook")
                listing == NewListing([vehicleId |-> body.vehicleId,
                                       title |-> listingContent.title,
                                       platform |-> "facebook",
                                       status |-> "draft",
                                       listingData |-> listingContent],
                                      nextId, now)
            IN /\ listings' = MapSet(listings, nextId, listing)
               /\ nextId' = nextId + 1
               /\ resp' = [status |-> 200, body |-> listing]
    /\ UNCHANGED <<vehicles, now, up, vin, aiExtractions, an, hc, inflight, home, listingPreview, imageUpload>>

\* POST /api/listings/generate
GenerateListing(body) ==
    /\ Len(listings) < MaxListings
    /\ req' = [op |-> "POST /api/listings/generate", id |-> 0, body |-> body]
    /\ IF ~(Has(body, "vehicleId") /\ MapHas(vehicles, body.vehicleId))
       THEN /\ resp' = [status |-> 404, body |-> Message("Vehicle not found")]
            /\ UNCHANGED <<listings, nextId>>
       ELSE LET platform == IF Has(body, "platform") THEN body.platform ELSE "facebook"
                listingContent == generateListingContent(MapGet(vehicles, body.vehicleId), platform)
                listing == NewListing([vehicleId |-> body.vehicleId,
                                       title |-> listingContent.title,
                                       platform |-> platform,
                                       status |-> "draft",
                                       listingData |-> listingContent],
                                      nextId, now)
            IN /\ listings' = MapSet(listings, nextId, listing)
               /\ nextId' = nextId + 1
               /\ resp' = [status |-> 200, body |-> listing]
    /\ UNCHANGED <<vehicles, now, up, vin, aiExtractions, an, hc, inflight, home, listingPreview, imageUpload>>

NextListings ==
    \/ \E body \in ValidVehicleBodies : PostVehicle(body)
    \/ \E id \in Ids : DeleteVehicle(id)
    \/ \E body \in {[title |-> "2020 Honda Civic", platform |-> "facebook", vehicleId |-> 1],
                     [title |-> "Parts car", platform |-> "ebay", status |-> "archived"]} :
           PostListing(body)
    \/ \E body \in GenerateBodies : GenerateListing(body)
    \/ GetListings
    \/ AnalyzeReceive([imageBase64 |-> "aGk=", vehicleId |-> 1])
    \/ \E text \in StoredTexts : AnalyzeResponds(text)
    \/ AnalyzeFails("unreachable")

SpecListings == Init /\ [][NextListings]_vars

(***************************************************************************)
(* MemStorage.updateVehicle and MemStorage.updateListing called on the     *)
(* store directly (no route calls updateListing).                          *)
(***************************************************************************)
\* the partial fields handed to update, by kind
StoreUpdates ==
    [vehicle |-> {[price |-> 14000, features |-> <<"Sunroof">>],
                  [trim |-> "LX", features |-> NullArray, images |-> NullArray]},
     listing |-> {[status |-> "published", title |-> "Price drop"]}]

StoreUpdate(kind, id, updateData) ==
    /\ req' = [op |-> "update", id |-> id, body |-> [kind |-> kind, partialFields |-> updateData]]
    /\ IF kind = "vehicle"
       THEN /\ IF MapHas(vehicles, id)
               THEN LET updated == UpdatedVehicle(MapGet(vehicles, id), updateData, now)
                    IN /\ vehicles' = MapSet(vehicles, id, updated)
                       /\ resp' = [status |-> 0, body |-> updated]
               ELSE /\ resp' = [status |-> 0, body |-> NoBody]
                    /\ UNCHANGED vehicles
            /\ UNCHANGED listings
       ELSE /\ IF MapHas(listings, id)
               THEN LET updated == UpdatedListing(MapGet(listings, id), updateData, now)
                    IN /\ listings' = MapSet(listings, id, updated)
                       /\ resp' = [status |-> 0, body |-> updated]
               ELSE /\ resp' = [status |-> 0, body |-> NoBody]
                    /\ UNCHANGED listings
            /\ UNCHANGED vehicles
    /\ UNCHANGED <<nextId, now, up, vin, aiExtractions, an, hc, inflight, home, listingPreview, imageUpload>>

NextStore ==
    \/ Tick
    \/ PostVehicle(TopBody)
    \/ PostListing([title |-> "2020 Honda Civic", platform |-> "facebook", vehicleId |-> 1])
    \/ \E kind \in {"vehicle", "listing"}, id \in Ids :
           \E updateData \in StoreUpdates[kind] : StoreUpdate(kind, id, updateData)

SpecStore == Init /\ [][NextStore]_vars

(***************************************************************************)
(* Requests in flight on the vehicle routes. A handler runs from its start *)
(* to its await of the store method without yielding, and the store method *)
(* has no await of its own: RaceHandle is that run, RaceRespond is the     *)
(* continuation after the await.                                           *)
(***************************************************************************)
\* requests in flight at the same time
MaxInflight == 2

RaceRequests ==
    {[op |-> "POST /api/vehicles", id |-> 0, body |-> EdgeBody],
     [op |-> "PUT /api/vehicles/:id", id |-> 1, body |-> [price |-> 14000]],
     [op |-> "PUT /api/vehicles/:id", id |-> 1, body |-> [mileage |-> 1]],
     [op |-> "DELETE /api/vehicles/:id", id |-> 1, body |-> NoBody]}

\* a request arrives; its handler has not started
RaceArrive(request) ==
    /\ Len(inflight) < MaxInflight
    /\ request.op = "POST /api/vehicles" =>
           nextId + Cardinality({i \in 1..Len(inflight) :
                                     /\ inflight[i].request.op = "POST /api/vehicles"
                                     /\ inflight[i].pc = "received"}) <= MaxIds
    /\ inflight' = Append(inflight, [request |-> request, pc |-> "received",
                                     response |-> [status |-> 0, body |-> NoBody]])
    /\ UNCHANGED <<vehicles, listings, nextId, now, req, resp, up, vin, aiExtractions, an, hc, home, listingPreview, imageUpload>>

\* the handler of request i runs up to its await
RaceHandle(i) ==
    /\ i \in 1..Len(inflight)
    /\ inflight[i].pc = "received"
    /\ LET request == inflight[i].request
           Awaiting(response) ==
               [inflight EXCEPT ![i] = [request |-> request, pc |-> "awaiting",
                                        response |-> response]]
       IN CASE request.op = "POST /api/vehicles" ->
                  IF VehicleSchemaOk(request.body, FALSE)
                  THEN LET vehicle == NewVehicle(VehicleParsed(request.body), nextId, now)
                       IN /\ vehicles' = MapSet(vehicles, nextId, vehicle)
                          /\ nextId' = nextId + 1
                          /\ inflight' = Awaiting([status |-> 201, body |-> vehicle])
                  ELSE /\ inflight' = Awaiting([status |-> 400, body |-> Message("ZodError")])
                       /\ UNCHANGED <<vehicles, nextId>>
            [] request.op = "PUT /api/vehicles/:id" ->
                  /\ UNCHANGED nextId
                  /\ IF ~VehicleSchemaOk(request.body, TRUE)
                     THEN /\ inflight' = Awaiting([status |-> 400, body |-> Message("ZodError")])
                          /\ UNCHANGED vehicles
                     ELSE IF ~MapHas(vehicles, request.id)
                     THEN /\ inflight' = Awaiting([status |-> 404,
                                                   body |-> Message("Vehicle not found")])
                          /\ UNCHANGED vehicles
                     ELSE LET updated == UpdatedVehicle(MapGet(vehicles, request.id),
                                                        VehicleParsed(request.body), now)
                          IN /\ vehicles' = MapSet(vehicles, request.id, updated)
                             /\ inflight' = Awaiting([status |-> 200, body |-> updated])
            [] request.op = "DELETE /api/vehicles/:id" ->
                  /\ UNCHANGED nextId
                  /\ vehicles' = MapDelete(vehicles, request.id)
                  /\ inflight' = Awaiting(IF MapHas(vehicles, request.id)
                                          THEN [status |-> 204, body |-> NoBody]
                                          ELSE [status |-> 404,
                                                body |-> Message("Vehicle not found")])
    /\ UNCHANGED <<listings, now, req, resp, up, vin, aiExtractions, an, hc, home, listingPreview, imageUpload>>

\* the handler of request i resumes after its await and answers
RaceRespond(i) ==
    /\ i \in 1..Len(inflight)
    /\ inflight[i].pc = "awaiting"
    /\ req' = inflight[i].request
    /\ resp' = inflight[i].response
    /\ inflight' = SubSeq(inflight, 1, i - 1) \o SubSeq(inflight, i + 1, Len(inflight))
    /\ UNCHANGED <<vehicles, listings, nextId, now, up, vin, aiExtractions, an, hc, home, listingPreview, imageUpload>>

NextRace ==
    \/ \E request \in RaceRequests : RaceArrive(request)
    \/ \E i \in 1..MaxInflight : RaceHandle(i)
    \/ \E i \in 1..MaxInflight : RaceRespond(i)

SpecRace == Init /\ [][NextRace]_vars

(***************************************************************************)
(* The two routes that run the inference, side by side with the routes     *)
(* that write the store: POST /api/images/upload keeps its extractions in  *)
(* the response, POST /api/images/analyze stores them.                     *)
(***************************************************************************)
NextExtract ==
    \/ \E files \in {<<FullPng, SmallJpeg>>, <<Gif>>} : UploadReceive(files)
    \/ ProcessImage(TRUE)
    \/ \E outcome \in {"json", "unreachable"} : InferenceReturn(outcome)
    \/ \E body \in AnalyzeBodies \cup {[imageBase64 |-> "aGk=", vehicleId |-> 0]} :
           AnalyzeReceive(body)
    \/ \E text \in StoredTexts : AnalyzeResponds(text)
    \/ \E outcome \in InferenceOutcomes : AnalyzeFails(outcome)
    \/ PostVehicle(TopBody)
    \/ GenerateListing([vehicleId |-> 1])

SpecExtract == Init /\ [][NextExtract]_vars

(***************************************************************************)
(* The two validations of an uploaded file, multer's and                   *)
(* ImageProcessor.validateImageFile, called on files of every declared     *)
(* type and size of the model.                                             *)
(***************************************************************************)
\* one file is checked by both: resp holds the message validateImageFile throws
\* ("" when it returns) and whether multer lets the file through
ValidateImage(mimetype, size) ==
    /\ req' = [op |-> "validateImageFile", id |-> 0,
               body |-> [mimetype |-> mimetype, size |-> size]]
    /\ resp' = [status |-> 0,
                body |-> [message |-> validateImageFile(mimetype, size),
                          multer |-> MulterAccepts([mimetype |-> mimetype, size |-> size])]]
    /\ UNCHANGED <<vehicles, listings, nextId, now, up, vin, aiExtractions, an, hc, inflight, home, listingPreview, imageUpload>>

NextValidate ==
    \E mimetype \in {ImageJpeg, ImageJpg, ImagePng, ImageWebp,
                      <<"I", "M", "A", "G", "E", "/", "P", "N", "G">>,
                      <<"I", "m", "a", "g", "e", "/", "J", "p", "e", "g">>,
                      <<"i", "m", "a", "g", "e", "/", "W", "E", "B", "P">>,
                      <<"i", "m", "a", "g", "e", "/", "g", "i", "f">>,
                      <<"i", "m", "a", "g", "e", "/", "j", "p", "e">>,
                      <<"i", "m", "a", "g", "e", "/", "p", "n", "g", "x">>,
                      <<"i", "m", "a", "g", "e", "/", "s", "v", "g", "+", "x", "m", "l">>,
                      <<"j", "p", "e", "g">>,
                      <<"t", "e", "x", "t", "/", "p", "l", "a", "i", "n">>,
                      <<>>},
       size \in {0, 1, 2048, MaxFileSize - 1, MaxFileSize, MaxFileSize + 1,
                 2 * MaxFileSize, 2147483647} :
        ValidateImage(mimetype, size)

SpecValidate == Init /\ [][NextValidate]_vars

(***************************************************************************)
(* GET /api/vin/:vin with registry answers that decode the VIN and differ  *)
(* in the fuel type they report.                                           *)
(***************************************************************************)
NextFuel ==
    \/ \E v \in {VinUpper, VinDigits, VinShort} : VinReceive(v)
    \/ \E f \in {FuelGasoline, FuelGas, FuelElectric, FuelHybrid, FuelDiesel, FuelFlex, FuelE85,
                  <<"G", "a", "s">>, <<"F", "l", "e", "x", " ", "F", "u", "e", "l">>,
                  <<"E", "8", "5">>, <<"H", "Y", "B", "R", "I", "D">>,
                  <<"D", "i", "e", "s", "e", "l">>,
                  <<"h", "y", "d", "r", "o", "g", "e", "n">>,
                  <<"g", "a", "s", " ">>,
                  <<" ">>,
                  <<"C", "o", "n", "s", "t", "r", "u", "c", "t", "o", "r">>,
                  <<"_", "_", "p", "r", "o", "t", "o", "_", "_">>,
                  <<>>} :
           RegistryAnswer([kind |-> "json",
                           Results |-> <<[DecodedAccord.Results[1] EXCEPT !.FuelTypePrimary = f]>>])
    \/ RegistryAnswer([kind |-> "json",
                       Results |-> <<[ErrorCode |-> "0", ErrorText |-> "", Make |-> "KIA",
                                      Model |-> "Rio", ModelYear |-> <<"2", "0", "1", "5">>,
                                      Trim |-> "", EngineHP |-> "", TransmissionStyle |-> "",
                                      BodyClass |-> "", DriveType |-> ""]>>])
    \/ RegistryAnswer(CheckDigitError)

SpecFuel == InitVin /\ [][NextFuel]_vars

(***************************************************************************)
(* POST /api/vehicles followed by POST /api/listings/generate, for         *)
(* vehicles whose prices have one to six digits and whose trim is missing, *)
(* empty or given.                                                         *)
(***************************************************************************)
NextTitle ==
    \/ \E body \in {Without([GoodBody EXCEPT !.price = 1], "trim"),
                     [trim |-> ""] @@ [GoodBody EXCEPT !.price = 999],
                     [trim |-> "EX-L"] @@ [GoodBody EXCEPT !.price = 1000],
                     [trim |-> ""] @@ [GoodBody EXCEPT !.price = 1005, !.year = 1900],
                     [trim |-> "Sport Touring"] @@ [GoodBody EXCEPT !.price = 15000],
                     Without([GoodBody EXCEPT !.price = 100000, !.mileage = 7], "trim"),
                     [trim |-> " "] @@ [GoodBody EXCEPT !.price = 999999, !.year = CurrentYear + 1]} :
           PostVehicle(body)
    \/ \E id \in Ids : GenerateListing([vehicleId |-> id])
    \/ \E id \in Ids : GenerateListing([vehicleId |-> id, platform |-> "facebook"])

SpecTitle == Init /\ [][NextTitle]_vars

(***************************************************************************)
(* The client: the vehicle form saves a vehicle and hands it to Home,      *)
(* which passes it to ListingPreview; ListingPreview asks the server for a *)
(* listing from its render function.                                       *)
(***************************************************************************)
\* generate requests ListingPreview issues for one vehicle in one run
MaxRequests == 2

\* the form is submitted with valid data: createVehicleMutation posts the
\* vehicle with the images Home holds, the server stores it, and onSuccess
\* hands the stored vehicle to Home (handleVehicleUpdate), which renders anew
SubmitVehicle(data) ==
    /\ ~listingPreview.stale
    /\ Len(vehicles) < MaxIds
    /\ LET vehicleData == Spread(data, [features |-> <<>>, images |-> home.uploadedImages])
           vehicle == NewVehicle(VehicleParsed(vehicleData), nextId, now)
       IN /\ VehicleSchemaOk(vehicleData, FALSE)
          /\ req' = [op |-> "POST /api/vehicles", id |-> 0, body |-> vehicleData]
          /\ vehicles' = MapSet(vehicles, nextId, vehicle)
          /\ nextId' = nextId + 1
          /\ resp' = [status |-> 201, body |-> vehicle]
          /\ home' = [home EXCEPT !.selectedVehicle = vehicle]
    /\ listingPreview' = [listingPreview EXCEPT !.stale = TRUE]
    /\ UNCHANGED <<listings, now, up, vin, aiExtractions, an, hc, inflight, imageUpload>>

\* ListingPreview renders after a change of state, before the browser handles
\* the next event. With a vehicle and no listingData the render calls
\* generateListingMutation.mutate(vehicle.id): the request is sent and the
\* mutation changes state, so the component renders once more. Any other
\* render changes nothing. (Beyond MaxRequests requests for a vehicle the
\* model follows the renders no further.)
PreviewRender ==
    /\ listingPreview.stale
    /\ IF /\ DOMAIN home.selectedVehicle # {}
          /\ DOMAIN listingPreview.listingData = {}
          /\ Cardinality({i \in 1..Len(listingPreview.requests) :
                             listingPreview.requests[i].vehicleId = home.selectedVehicle.id})
                 < MaxRequests
       THEN listingPreview' =
                [listingPreview EXCEPT !.requests =
                    Append(@, [vehicleId |-> home.selectedVehicle.id, pc |-> "sent",
                               listing |-> NoBody])]
       ELSE listingPreview' = [listingPreview EXCEPT !.stale = FALSE]
    /\ UNCHANGED <<vehicles, listings, nextId, now, req, resp, up, vin, aiExtractions, an, hc,
                   inflight, home, imageUpload>>

\* the server handles generate request i: POST /api/listings/generate
GenerateServed(i) ==
    /\ i \in 1..Len(listingPreview.requests)
    /\ listingPreview.requests[i].pc = "sent"
    /\ LET vehicleId == listingPreview.requests[i].vehicleId
       IN /\ req' = [op |-> "POST /api/listings/generate", id |-> 0,
                     body |-> [vehicleId |-> vehicleId, platform |-> "facebook"]]
          /\ IF ~MapHas(vehicles, vehicleId)
             THEN /\ resp' = [status |-> 404, body |-> Message("Vehicle not found")]
                  /\ listingPreview' = [listingPreview EXCEPT !.requests[i].pc = "refused"]
                  /\ UNCHANGED <<listings, nextId>>
             ELSE LET listingContent == generateListingContent(MapGet(vehicles, vehicleId), "facebook")
                      listing == NewListing([vehicleId |-> vehicleId,
                                             title |-> listingContent.title,
                                             platform |-> "facebook",
                                             status |-> "draft",
                                             listingData |-> listingContent],
                                            nextId, now)
                  IN /\ listings' = MapSet(listings, nextId, listing)
                     /\ nextId' = nextId + 1
                     /\ resp' = [status |-> 200, body |-> listing]
                     /\ listingPreview' = [listingPreview EXCEPT !.requests[i].pc = "answered",
                                                                 !.requests[i].listing = listing]
    /\ UNCHANGED <<vehicles, now, up, vin, aiExtractions, an, hc, inflight, home, imageUpload>>

\* generate request i fails (the server is not reached, or its refusal
\* arrives): apiRequest rejects, the mutation has no onError and turns to
\* its error state, and the component renders anew
GenerateFailed(i) ==
    /\ ~listingPreview.stale
    /\ i \in 1..Len(listingPreview.requests)
    /\ listingPreview.requests[i].pc \in {"sent", "refused"}
    /\ listingPreview' = [listingPreview EXCEPT !.requests[i].pc = "failed", !.stale = TRUE]
    /\ UNCHANGED <<vehicles, listings, nextId, now, req, resp, up, vin, aiExtractions, an, hc,
                   inflight, home, imageUpload>>

\* the answer to generate request i arrives: onSuccess sets listingData and
\* the component renders anew
GenerateSettled(i) ==
    /\ ~listingPreview.stale
    /\ i \in 1..Len(listingPreview.requests)
    /\ listingPreview.requests[i].pc = "answered"
    /\ listingPreview' = [listingPreview EXCEPT
                             !.listingData = listingPreview.requests[i].listing.listingData,
                             !.requests[i].pc = "done",
                             !.stale = TRUE]
    /\ UNCHANGED <<vehicles, listings, nextId, now, req, resp, up, vin, aiExtractions, an, hc,
                   inflight, home, imageUpload>>

\* the first vehicle saved is a used Civic, every later one a new F-150
NextPreview ==
    \/ \E data \in IF vehicles = <<>> THEN {GoodBody} ELSE {TopBody} : SubmitVehicle(data)
    \/ PreviewRender
    \/ \E i \in 1..(MaxIds * MaxRequests) : GenerateServed(i)
    \/ \E i \in 1..(MaxIds * MaxRequests) : GenerateFailed(i)
    \/ \E i \in 1..(MaxIds * MaxRequests) : GenerateSettled(i)

SpecPreview == Init /\ [][NextPreview]_vars

\* a render that is due happens, a request that is sent is served unless it
\* fails first, and an answer or a refusal on its way arrives
SpecPreviewFair ==
    /\ SpecPreview
    /\ WF_vars(PreviewRender)
    /\ WF_vars(\E i \in 1..(MaxIds * MaxRequests) : GenerateServed(i))
    /\ WF_vars(\E i \in 1..(MaxIds * MaxRequests) : GenerateSettled(i))
    /\ WF_vars(\E i \in 1..(MaxIds * MaxRequests) : GenerateFailed(i))

(***************************************************************************)
(* The client: ImageUpload sends batches of files to POST                  *)
(* /api/images/upload, keeps the urls it shows in its own state and        *)
(* reports each batch to Home, whose list the vehicle form sends along.    *)
(***************************************************************************)
\* files uploaded in one run
MaxUploaded == 3

\* the answer to an upload arrives with status 200: uploadMutation.onSuccess
\* appends the urls of the batch to the list ImageUpload shows and calls
\* onImagesUploaded (handleImagesUploaded of Home) with the batch
UploadSucceeded ==
    /\ up.pc = "done"
    /\ up.status = 200
    /\ LET \* data.images.map(img => img.url), each url written out as a string
           imageUrls == [i \in 1..Len(up.images) |->
                            up.images[i].url.dir \o ToString(up.images[i].url.uuid)
                            \o up.images[i].url.ext]
       IN /\ imageUpload' = [imageUpload EXCEPT !.uploadedImages = @ \o imageUrls]
          /\ home' = [home EXCEPT !.uploadedImages = imageUrls,
                                  !.aiExtractions = up.extractions]
    /\ up' = [UpIdle EXCEPT !.disk = up.disk]
    /\ UNCHANGED <<vehicles, listings, nextId, now, req, resp, vin, aiExtractions, an, hc,
                   inflight, listingPreview>>

\* removeImage(indexToRemove), counting from 1
RemoveImage(indexToRemove) ==
    /\ indexToRemove \in 1..Len(imageUpload.uploadedImages)
    /\ imageUpload' =
           [imageUpload EXCEPT !.uploadedImages =
               SubSeq(@, 1, indexToRemove - 1) \o SubSeq(@, indexToRemove + 1, Len(@))]
    /\ UNCHANGED <<vehicles, listings, nextId, now, req, resp, up, vin, aiExtractions, an, hc,
                   inflight, home, listingPreview>>

\* one submit of the form ends a run (ListingPreview does not render here)
NextPanel ==
    \/ \E files \in {batch \in {<<SmallJpeg>>, <<FullPng, SmallJpeg>>} :
                          Cardinality(up.disk) + Len(batch) <= MaxUploaded} :
           UploadReceive(files)
    \/ ProcessImage(TRUE)
    \/ \E outcome \in {"json", "unreachable"} : InferenceReturn(outcome)
    \/ UploadSucceeded
    \/ \E indexToRemove \in 1..MaxUploaded : RemoveImage(indexToRemove)
    \/ SubmitVehicle(GoodBody)

SpecPanel == Init /\ [][NextPanel]_vars

(***************************************************************************)
(* The record store under creates, updates and deletes of every kind:      *)
(* vehicles through their routes and through MemStorage.updateVehicle,     *)
(* listings through POST /api/listings and MemStorage.updateListing.       *)
(***************************************************************************)
NextRecords ==
    \/ Tick
    \/ PostVehicle(TopBody)
    \/ \E id \in Ids, body \in VehiclePatches : PutVehicle(id, body)
    \/ \E id \in Ids : DeleteVehicle(id)
    \/ PostListing([title |-> "2020 Honda Civic", platform |-> "facebook", vehicleId |-> 1])
    \/ \E kind \in {"vehicle", "listing"}, id \in Ids :
           \E updateData \in StoreUpdates[kind] : StoreUpdate(kind, id, updateData)

SpecRecords == Init /\ [][NextRecords]_vars

(***************************************************************************)
(* Properties of the store routes.                                         *)
(***************************************************************************)
\* a route handled the request req' in this step (Tick is the only step that
\* moves the clock, and every other step of Spec and SpecPost is a handler)
Handled(op) == now' = now /\ req'.op = op

\* a body that fails the vehicle schema, field by field as the schema is documented
FailsVehicleSchema(b) ==
    \/ ~Has(b, "make") \/ ~Has(b, "model") \/ ~Has(b, "year") \/ ~Has(b, "mileage")
    \/ ~Has(b, "price") \/ ~Has(b, "transmission") \/ ~Has(b, "fuelType")
    \/ ~Has(b, "condition") \/ ~Has(b, "location") \/ ~Has(b, "description")
    \/ b.make = "" \/ b.model = "" \/ b.location = ""
    \/ b.year < 1900 \/ b.year > CurrentYear + 1
    \/ b.mileage < 0 \/ b.mileage > 999999
    \/ b.price < 1 \/ b.price > 999999
    \/ b.transmission \notin {"automatic", "manual", "cvt"}
    \/ b.fuelType \notin {"gasoline", "hybrid", "electric", "diesel"}
    \/ b.condition \notin {"excellent", "good", "fair", "poor"}
    \/ Len(b.description) < 10

\* C1: POST /api/vehicles with a body that satisfies the schema answers 201 with a
\* record under an identifier never used before, stored as returned; a stored
\* vehicle stays stored through every request other than its own DELETE and is
\* changed only by its own PUT; and GET /api/vehicles/:id of a stored identifier
\* answers 200 with the stored record.
C1_CreatedThenRetrievable ==
    [][/\ (Handled("POST /api/vehicles") /\ ~FailsVehicleSchema(req'.body)) =>
            /\ resp'.status = 201
            /\ resp'.body.id >= nextId
            /\ ~MapHas(vehicles, resp'.body.id)
            /\ MapHas(vehicles', resp'.body.id)
            /\ MapGet(vehicles', resp'.body.id) = resp'.body
            /\ \A k \in VehicleRequired : resp'.body[k] = req'.body[k]
       /\ \A id \in Ids :
            (MapHas(vehicles, id) /\ ~(Handled("DELETE /api/vehicles/:id") /\ req'.id = id)) =>
                /\ MapHas(vehicles', id)
                /\ ~(Handled("PUT /api/vehicles/:id") /\ req'.id = id) =>
                       MapGet(vehicles', id) = MapGet(vehicles, id)
       /\ (Handled("GET /api/vehicles/:id") /\ MapHas(vehicles, req'.id)) =>
            /\ resp'.status = 200
            /\ resp'.body = MapGet(vehicles, req'.id)
            /\ resp'.body.id = req'.id
      ]_vars

\* C1 witness: a vehicle read back with 200 after it was updated in a later tick
C1_Witness ==
    /\ req.op = "GET /api/vehicles/:id"
    /\ resp.status = 200
    /\ resp.body.updatedAt > resp.body.createdAt
    /\ Len(vehicles) = 2

\* C2: POST /api/vehicles with a body that fails the schema answers 400 and
\* creates nothing: both maps and the identifier supply are as they were.
C2_InvalidPostRejected ==
    [][(Handled("POST /api/vehicles") /\ FailsVehicleSchema(req'.body)) =>
            /\ resp'.status = 400
            /\ vehicles' = vehicles
            /\ listings' = listings
            /\ nextId' = nextId
      ]_vars

\* C2 witness: a rejected POST against a store that already holds a vehicle
C2_Witness ==
    /\ req.op = "POST /api/vehicles"
    /\ resp.status = 400
    /\ Has(req.body, "description")
    /\ Len(req.body.description) < 10
    /\ Len(vehicles) > 0

\* C3: DELETE of an identifier that is not stored answers 404 and changes nothing;
\* DELETE of a stored one answers 204 and removes it; an identifier that was handed
\* out and is no longer stored never comes back, whatever request runs; and GET of
\* an identifier that is not stored answers 404.
C3_DeleteIsFinal ==
    [][/\ (Handled("DELETE /api/vehicles/:id") /\ ~MapHas(vehicles, req'.id)) =>
            /\ resp'.status = 404
            /\ vehicles' = vehicles
            /\ listings' = listings
       /\ (Handled("DELETE /api/vehicles/:id") /\ MapHas(vehicles, req'.id)) =>
            /\ resp'.status = 204
            /\ ~MapHas(vehicles', req'.id)
            /\ Len(vehicles') = Len(vehicles) - 1
            /\ \A id \in Ids \ {req'.id} : MapHas(vehicles', id) = MapHas(vehicles, id)
       /\ \A id \in Ids : (id < nextId /\ ~MapHas(vehicles, id)) => ~MapHas(vehicles', id)
       /\ (Handled("GET /api/vehicles/:id") /\ ~MapHas(vehicles, req'.id)) => resp'.status = 404
      ]_vars

\* C3 witness: both identifiers went to vehicles, one of them was deleted, and a
\* later DELETE of it answered 404 while the other vehicle is still stored
C3_Witness ==
    /\ req.op = "DELETE /api/vehicles/:id"
    /\ resp.status = 404
    /\ req.id < nextId
    /\ nextId = 3
    /\ Len(listings) = 0
    /\ Len(vehicles) = 1

\* the records of a list response are in creation order, newest first
\* (identifiers are handed out in creation order)
NewestFirst(list) == \A i, j \in 1..Len(list) : i < j => list[i].id > list[j].id

\* C4: GET /api/vehicles and GET /api/listings return exactly the stored records,
\* every record created later before every record created earlier, two records
\* created within one clock tick included.
C4_ListsNewestFirst ==
    /\ req.op = "GET /api/vehicles" =>
          /\ Len(resp.body) = Len(vehicles)
          /\ \A i \in 1..Len(vehicles) : \E j \in 1..Len(resp.body) : resp.body[j] = vehicles[i]
          /\ NewestFirst(resp.body)
    /\ req.op = "GET /api/listings" =>
          /\ Len(resp.body) = Len(listings)
          /\ \A i \in 1..Len(listings) : \E j \in 1..Len(resp.body) : resp.body[j] = listings[i]
          /\ NewestFirst(resp.body)

(***************************************************************************)
(* Properties of the upload route.                                         *)
(***************************************************************************)
\* the inference calls of the request that failed
FailedCalls == {c \in 1..Len(up.calls) : up.calls[c].outcome \in {"noresponse", "status", "unreachable"}}

\* C5: an upload of n accepted images (1 <= n <= 10), each stored by the intake,
\* of which k had a failing inference call, answers 200 with n images and n - k
\* extractions: a failing call does not stop the images after it.
C5_PartialBatch ==
    (/\ up.pc = "done"
     /\ Len(up.files) >= 1 /\ Len(up.files) <= 10
     /\ \A i \in 1..Len(up.files) :
            /\ toLowerCase(up.files[i].mimetype) \in {ImageJpeg, ImageJpg, ImagePng, ImageWebp}
            /\ up.files[i].size <= 10 * 1024 * 1024
     /\ ~up.diskError) =>
        /\ up.status = 200
        /\ Len(up.images) = Len(up.files)
        /\ Len(up.calls) = Len(up.files)
        /\ Len(up.extractions) = Len(up.files) - Cardinality(FailedCalls)

\* C5 witness: three images, the inference call of the first one failed, 200 sent
C5_Witness ==
    /\ up.pc = "done"
    /\ up.status = 200
    /\ Len(up.files) = 3
    /\ FailedCalls = {1}
    /\ Len(up.extractions) = 2

(***************************************************************************)
(* Properties of the VIN lookup.                                           *)
(***************************************************************************)
\* the documented shape: 17 characters, each a digit or a letter other than
\* I, O and Q, in either case
VinShaped(v) ==
    /\ Len(v) = 17
    /\ \A i \in 1..17 :
          \/ v[i] \in {"0", "1", "2", "3", "4", "5", "6", "7", "8", "9"}
          \/ \E j \in 1..26 : /\ v[i] \in {UpperLetters[j], LowerLetters[j]}
                              /\ UpperLetters[j] \notin {"I", "O", "Q"}

\* the failure modes of the primary lookup
RegistryFailed ==
    \/ vin.answer.kind \in {"unreachable", "status", "notjson"}
    \/ vin.answer.kind = "json" /\ vin.answer.Results = <<>>
    \/ vin.answer.kind = "json" /\ vin.answer.Results # <<>> /\ vin.answer.Results[1].ErrorCode # "0"

RegistryErrorCode ==
    vin.answer.kind = "json" /\ vin.answer.Results # <<>> /\ vin.answer.Results[1].ErrorCode # "0"

\* C6: a lookup of a VIN-shaped string has issued exactly one outbound call when it
\* ends, whatever the registry did and with or without a provider key; a lookup of
\* any other string issues none and ends with success:false.
C6_OneCallPerShapedVin ==
    vin.pc = "done" =>
        IF VinShaped(vin.vin)
        THEN vin.calls = 1
        ELSE vin.calls = 0 /\ ~vin.result.success

\* C7: the pre-validation lets a string through to the registry query exactly when
\* it is VIN-shaped, lower and mixed case included.
C7_ShapeAnyCase ==
    vin.pc \in {"fetching", "done"} => (vin.calls >= 1 <=> VinShaped(vin.vin))

\* C8: when the registry answers with an error code other than "0", the lookup
\* returns success:false with the registry's error text, or the not-found message
\* when the registry gave no text, with and without a provider key.
C8_RegistryErrorTextReturned ==
    (vin.pc = "done" /\ RegistryErrorCode) =>
        /\ ~vin.result.success
        /\ vin.result.error =
              IF Has(vin.answer.Results[1], "ErrorText") /\ vin.answer.Results[1].ErrorText # ""
              THEN vin.answer.Results[1].ErrorText
              ELSE "VIN not found in NHTSA database"

\* C9: with a provider key, every failure of the primary lookup is followed by one
\* attempt of the secondary provider, whose result is returned; without a key the
\* secondary provider is never attempted.
C9_FallbackOnEveryFailure ==
    (vin.pc = "done" /\ vin.calls = 1) =>
        /\ (vin.apiKey # "" /\ RegistryFailed) =>
              /\ vin.commercial = 1
              /\ vin.result = [success |-> FALSE, error |-> "Commercial VIN API not configured"]
        /\ vin.apiKey = "" => vin.commercial = 0

\* C10: GET /api/vin/:vin always answers 200; the body is success:false with an
\* error text when the VIN is refused or the primary lookup failed in any way,
\* and success:true only after the registry answered with error code "0".
C10_VinRouteAnswers200 ==
    vin.pc = "done" =>
        /\ vin.status = 200
        /\ (vin.calls = 0 \/ RegistryFailed) =>
              /\ ~vin.result.success
              /\ Has(vin.result, "error")
              /\ vin.result.error # ""
        /\ vin.result.success =>
              /\ vin.answer.kind = "json"
              /\ vin.answer.Results # <<>>
              /\ vin.answer.Results[1].ErrorCode = "0"

\* C10 witness: the registry was unreachable for a valid VIN and the route
\* answered 200 with success:false
C10_Witness ==
    /\ vin.pc = "done"
    /\ vin.calls = 1
    /\ vin.answer.kind = "unreachable"
    /\ vin.status = 200
    /\ ~vin.result.success

(***************************************************************************)
(* Properties of the image analysis.                                       *)
(***************************************************************************)
\* the response text just analyzed is lead l, span s and trail t of ResponseParts
AnalyzedParts(l, s, t) ==
    /\ resp.status = 200
    /\ req.op = "POST /api/images/analyze"
    /\ an.pc = "idle"
    /\ an.text = ResponseParts.leads[l] \o ResponseParts.spans[s] \o ResponseParts.trails[t]

\* what a reader of the three parts expects of the braces: "none" when the
\* text holds no brace pair, "json" when the text from its first "{" to its
\* last "}" is one JSON object, "broken" otherwise
ExpectedSpan(s, t) ==
    CASE s = 1 /\ t \in {1, 2, 3} -> "none"
      [] s = 1 /\ t = 4 -> "json"
      [] s = 5 -> "broken"
      [] t \in {3, 4} -> "broken"
      [] OTHER -> "json"

\* the fields a reader expects from the JSON object of span s (trail 4 alone
\* is the object {"note":"second"})
ExpectedParsed(s) ==
    CASE s = 1 -> [note |-> "second"]
      [] s = 2 -> [licensePlate |-> "XYZ 789", damage |-> "none", year |-> 2015,
                   interior |-> Null]
      [] s = 3 -> [exterior |-> "good"]
      [] s = 4 -> NoBody
      [] s = 6 -> [features |-> <<"sunroof", "gps">>, vehicleDetails |-> [make |-> "Honda"]]

\* the fields a reader expects the four patterns to find in a text whose
\* braces do not parse
ExpectedPatterns(l, s, t) ==
    LET plate == IF l = 3 THEN [licensePlate |-> "ABC-123\nDamage", interior |-> "good"]
                 ELSE NoBody
        damage == IF l = 3 THEN [damage |-> "dent on door"]
                  ELSE IF s = 5
                  THEN [damage |-> CASE t = 1 -> "scratched bumper}"
                                     [] t = 2 -> "scratched bumper} Hope this helps"
                                     [] t = 3 -> "scratched bumper} }"
                                     [] t = 4 -> "scratched bumper} {\"note\":\"second\"}"]
                  ELSE NoBody
        exterior == IF s = 5 THEN [exterior |-> "fair"] ELSE NoBody
    IN Spread(Spread(plate, damage), exterior)

ReservedKeys == {"confidence", "extractedText", "rawResponse"}

\* result carries exactly the expected fields beside the three reserved keys
CarriesFields(result, confidence, expected) ==
    /\ DOMAIN result = (DOMAIN expected) \cup ReservedKeys
    /\ result.confidence = confidence
    /\ result.extractedText = StringOf(an.text)
    /\ result.rawResponse = StringOf(an.text)
    /\ \A k \in (DOMAIN expected) \ ReservedKeys : result[k] = expected[k]

\* C11: analyze returns confidence 85 with the parsed fields exactly when a
\* {...} span is found and parses as JSON, confidence 60 with only the
\* pattern-extracted licensePlate/damage/interior/exterior fields exactly when
\* a span is found but does not parse, and confidence 50 with no extracted
\* field exactly when no span is found; confidence, extractedText and
\* rawResponse keys of the parsed JSON never override these values, and
\* extractedText and rawResponse equal the raw response text.
C11_ConfidenceBySpan ==
    \A l \in 1..3, s \in 1..6, t \in 1..4 :
        AnalyzedParts(l, s, t) =>
            CASE ExpectedSpan(s, t) = "json" -> CarriesFields(resp.body, 85, ExpectedParsed(s))
              [] ExpectedSpan(s, t) = "broken" ->
                     CarriesFields(resp.body, 60, ExpectedPatterns(l, s, t))
              [] OTHER -> CarriesFields(resp.body, 50, NoBody)

\* a parsed object naming the three reserved keys has been analyzed
C11_Witness ==
    /\ AnalyzedParts(2, 3, 2)
    /\ resp.body.confidence = 85
    /\ resp.body.exterior = "good"

(***************************************************************************)
(* Properties of the health check.                                         *)
(***************************************************************************)
\* C12: GET /api/ollama/health always responds 200, and a body with
\* healthy:false never carries a non-empty model list (a non-empty list comes
\* only with healthy:true), also when the endpoint's availability changes
\* while the check is running.
C12_HealthConsistent ==
    (req.op = "GET /api/ollama/health" /\ hc.pc = "idle") =>
        /\ resp.status = 200
        /\ ~resp.body.healthy => resp.body.models = <<>>

(***************************************************************************)
(* Properties of listings and extractions.                                 *)
(***************************************************************************)
\* the records of map m that name the vehicle
OfVehicle(m, vehicleId) ==
    {m[i] : i \in {j \in 1..Len(m) : Has(m[j], "vehicleId") /\ m[j].vehicleId = vehicleId}}

Range(seq) == {seq[i] : i \in 1..Len(seq)}

\* C13: deleting a vehicle leaves the listing map and the extraction map
\* unchanged; every Listing and AiExtraction naming the deleted vehicle is
\* still stored, unmodified, and still returned by GET /api/listings,
\* getListingsByVehicle and getAiExtractionsByVehicle.
C13_NoCascade ==
    [][Handled("DELETE /api/vehicles/:id") =>
           /\ listings' = listings
           /\ aiExtractions' = aiExtractions
           /\ \A id \in Ids :
                  /\ OfVehicle(listings, id) \subseteq Range(SortNewestFirst(listings'))
                  /\ OfVehicle(listings, id) \subseteq Range(getListingsByVehicle(listings', id))
                  /\ OfVehicle(aiExtractions, id)
                         \subseteq Range(getAiExtractionsByVehicle(aiExtractions', id))]_vars

\* a vehicle has been deleted and a listing or an extraction still names it
C13_Witness ==
    /\ req.op = "DELETE /api/vehicles/:id"
    /\ resp.status = 204
    /\ OfVehicle(listings, req.id) \cup OfVehicle(aiExtractions, req.id) # {}

\* C17: every stored Listing has a status that is one of draft, published or
\* sold, in every state reachable through POST /api/listings and
\* POST /api/listings/generate.
C17_ListingStatusEnum ==
    \A i \in 1..Len(listings) : listings[i].status \in {"draft", "published", "sold"}

\* the vehicle named by a generate request is stored
NamesStoredVehicle(body) == Has(body, "vehicleId") /\ MapHas(vehicles, body.vehicleId)

\* C20: POST /api/listings/generate with a vehicleId that is not in the store,
\* or with none, responds 404 and creates no listing; with a stored vehicleId
\* it responds 200 and adds exactly one new Listing whose vehicleId is the
\* requested one, whose platform is the requested one or "facebook" when
\* omitted, and whose status is draft, leaving the vehicle and all existing
\* listings unchanged.
C20_GenerateListing ==
    [][Handled("POST /api/listings/generate") =>
           /\ vehicles' = vehicles
           /\ IF NamesStoredVehicle(req'.body)
              THEN /\ resp'.status = 200
                   /\ Len(listings') = Len(listings) + 1
                   /\ SubSeq(listings', 1, Len(listings)) = listings
                   /\ ~MapHas(listings, listings'[Len(listings')].id)
                   /\ listings'[Len(listings')].vehicleId = req'.body.vehicleId
                   /\ listings'[Len(listings')].platform =
                          (IF Has(req'.body, "platform") THEN req'.body.platform ELSE "facebook")
                   /\ listings'[Len(listings')].status = "draft"
                   /\ resp'.body = listings'[Len(listings')]
              ELSE /\ resp'.status = 404
                   /\ listings' = listings]_vars

\* a listing has been generated for another platform than facebook, beside an
\* existing listing
C20_Witness ==
    /\ req.op = "POST /api/listings/generate"
    /\ resp.status = 200
    /\ Len(listings) = 2
    /\ listings[2].platform = "craigslist"
    /\ listings[2].title = "1900 A B - $1"

(***************************************************************************)
(* Properties of update.                                                   *)
(***************************************************************************)
\* the map of the kind the update request names
StoreOf(kind, vehicleMap, listingMap) == IF kind = "vehicle" THEN vehicleMap ELSE listingMap

\* map after differs from map before in the record id only, which is rec
OnlyRecordChanged(before, after, id, rec) ==
    /\ Len(after) = Len(before)
    /\ \A i \in 1..Len(before) :
           after[i] = (IF before[i].id = id THEN rec ELSE before[i])

\* C14: update(kind, id, partialFields) on a stored record returns the
\* existing record with partialFields merged over it: every field named in
\* partialFields takes the new value, every field not named keeps its
\* previous value, and no other record of any kind changes; on an identifier
\* that is not stored it returns absent and the store is unchanged.
C14_UpdateMerges ==
    [][Handled("update") =>
           LET kind == req'.body.kind
               fields == req'.body.partialFields
               before == StoreOf(kind, vehicles, listings)
               after == StoreOf(kind, vehicles', listings')
               other == IF kind = "vehicle" THEN listings' = listings ELSE vehicles' = vehicles
           IN /\ other
              /\ aiExtractions' = aiExtractions
              /\ IF MapHas(before, req'.id)
                 THEN LET existing == MapGet(before, req'.id)
                      IN /\ DOMAIN resp'.body = DOMAIN existing \cup DOMAIN fields
                         /\ \A k \in DOMAIN fields : resp'.body[k] = fields[k]
                         /\ \A k \in DOMAIN existing \ DOMAIN fields :
                                resp'.body[k] = existing[k]
                         /\ OnlyRecordChanged(before, after, req'.id, resp'.body)
                 ELSE /\ DOMAIN resp'.body = {}
                      /\ after = before]_vars

\* C14, amended: as C14, but a features or images field given as null keeps
\* the existing list, and updatedAt, named or not, is set to the time of the
\* update.
C14_UpdateMergesAndStamps ==
    [][Handled("update") =>
           LET kind == req'.body.kind
               fields == req'.body.partialFields
               before == StoreOf(kind, vehicles, listings)
               after == StoreOf(kind, vehicles', listings')
               other == IF kind = "vehicle" THEN listings' = listings ELSE vehicles' = vehicles
               KeepsList(k) ==
                   kind = "vehicle" /\ k \in {"features", "images"} /\ fields[k] = NullArray
           IN /\ other
              /\ aiExtractions' = aiExtractions
              /\ IF MapHas(before, req'.id)
                 THEN LET existing == MapGet(before, req'.id)
                      IN /\ DOMAIN resp'.body = DOMAIN existing \cup DOMAIN fields
                         /\ \A k \in DOMAIN fields \ {"updatedAt"} :
                                resp'.body[k] = (IF KeepsList(k) THEN existing[k] ELSE fields[k])
                         /\ \A k \in DOMAIN existing \ (DOMAIN fields \cup {"updatedAt"}) :
                                resp'.body[k] = existing[k]
                         /\ resp'.body.updatedAt = now
                         /\ OnlyRecordChanged(before, after, req'.id, resp'.body)
                 ELSE /\ DOMAIN resp'.body = {}
                      /\ after = before]_vars

\* a vehicle has been updated with null lists some time after it was created
\* and a listing is stored beside it
C14_Witness ==
    /\ req.op = "update"
    /\ req.body.kind = "vehicle"
    /\ Has(req.body.partialFields, "trim")
    /\ Has(resp.body, "updatedAt")
    /\ resp.body.updatedAt > resp.body.createdAt
    /\ resp.body.trim = "LX"
    /\ resp.body.features = <<"Sunroof", "Leather Seats">>
    /\ MapHas(vehicles, req.id)
    /\ Len(listings) = 1

(***************************************************************************)
(* Properties of requests in flight.                                       *)
(***************************************************************************)
\* the handler of the request at position i of inflight runs in this step
Handles(i) ==
    /\ i \in 1..Len(inflight)
    /\ inflight[i].pc = "received"
    /\ Len(inflight') = Len(inflight)
    /\ inflight'[i].pc = "awaiting"

\* the PUT requests answered 200 whose handlers wait to respond
AppliedPuts ==
    {inflight[i].request : i \in {j \in 1..Len(inflight) :
        /\ inflight[j].pc = "awaiting"
        /\ inflight[j].request.op = "PUT /api/vehicles/:id"
        /\ inflight[j].response.status = 200}}

\* no stored vehicle lacks the values of a PUT applied to it
NoLostUpdate ==
    \A put \in AppliedPuts :
        MapHas(vehicles, put.id) =>
            \A k \in DOMAIN put.body :
                Has(MapGet(vehicles, put.id), k) /\ MapGet(vehicles, put.id)[k] = put.body[k]

\* C15: each store mutation is one atomic step between its read and its
\* write, so in any interleaving of requests in flight no update is lost: a
\* PUT merges over the record stored at the moment it is handled, two PUTs on
\* the same vehicle that set disjoint fields leave a record with the values
\* of both, and a PUT racing a DELETE of the same vehicle never re-inserts the
\* deleted record.
C15_NoLostUpdate ==
    [][/\ NoLostUpdate'
       /\ \A i \in 1..MaxInflight :
              (Handles(i) /\ inflight[i].request.op = "PUT /api/vehicles/:id") =>
                  LET put == inflight[i].request
                  IN IF MapHas(vehicles, put.id)
                     THEN /\ MapHas(vehicles', put.id)
                          /\ \A k \in DOMAIN put.body :
                                 /\ Has(MapGet(vehicles', put.id), k)
                                 /\ MapGet(vehicles', put.id)[k] = put.body[k]
                          /\ \A k \in DOMAIN MapGet(vehicles, put.id)
                                        \ (DOMAIN put.body \cup {"updatedAt"}) :
                                 /\ Has(MapGet(vehicles', put.id), k)
                                 /\ MapGet(vehicles', put.id)[k] = MapGet(vehicles, put.id)[k]
                     ELSE vehicles' = vehicles]_vars

\* two PUTs setting disjoint fields of the same vehicle are both applied and
\* neither has been answered yet
C15_Witness ==
    /\ Cardinality(AppliedPuts) = 2
    /\ MapHas(vehicles, 1)
    /\ MapGet(vehicles, 1).price = 14000
    /\ MapGet(vehicles, 1).mileage = 1

(***************************************************************************)
(* Properties of the order of the inference calls of an upload.            *)
(***************************************************************************)
\* the inference calls of the request that have not settled
PendingCalls == {c \in 1..Len(up.calls) : up.calls[c].outcome = "pending"}

\* C16: within one POST /api/images/upload request the images are handled in
\* order and at most one inference call is in flight: the call for image i+1
\* is issued only after the call for image i has completed or failed, each
\* image handled gets exactly one call, and a failed call is never retried.
C16_OneCallAtATime ==
    /\ Cardinality(PendingCalls) <= 1
    /\ PendingCalls # {} <=> up.pc = "inference"
    /\ \A c \in PendingCalls : c = Len(up.calls)
    /\ \A c \in 1..Len(up.calls) : up.calls[c].image = c
    /\ Len(up.calls) = Len(up.processedImages)
    /\ Len(up.calls) <= Len(up.files)
    /\ up.pc \in {"image", "inference"} =>
           up.i = Len(up.calls) + (IF up.pc = "image" THEN 1 ELSE 0)
    /\ (up.pc = "done" /\ up.status = 200) => Len(up.calls) = Len(up.files)

\* the call of the third image is in flight after the call of the first image
\* completed and the call of the second image failed
C16_Witness ==
    /\ up.pc = "inference"
    /\ Len(up.calls) = 3
    /\ up.calls[1].outcome = "json"
    /\ up.calls[2].outcome = "unreachable"
    /\ up.calls[3].outcome = "pending"

(***************************************************************************)
(* Properties of PUT /api/vehicles/:id.                                    *)
(***************************************************************************)
\* a field of the body lies outside its range or its enumeration
OutOfRange(b) ==
    \/ Has(b, "year") /\ (b.year < 1900 \/ b.year > CurrentYear + 1)
    \/ Has(b, "mileage") /\ (b.mileage < 0 \/ b.mileage > 999999)
    \/ Has(b, "price") /\ (b.price < 1 \/ b.price > 999999)
    \/ Has(b, "transmission") /\ b.transmission \notin {"automatic", "manual", "cvt"}
    \/ Has(b, "fuelType") /\ b.fuelType \notin {"gasoline", "hybrid", "electric", "diesel"}
    \/ Has(b, "condition") /\ b.condition \notin {"excellent", "good", "fair", "poor"}

\* the body fails the partial vehicle schema
FailsPartialSchema(b) ==
    \/ OutOfRange(b)
    \/ Has(b, "make") /\ b.make = ""
    \/ Has(b, "model") /\ b.model = ""
    \/ Has(b, "location") /\ b.location = ""
    \/ Has(b, "description") /\ Len(b.description) < 10

\* C18: through any sequence of POST /api/vehicles and PUT /api/vehicles/:id
\* requests every stored vehicle has year in 1900..current year + 1, mileage in
\* 0..999999, price in 1..999999, and transmission, fuelType and condition
\* inside their enumerations; a PUT carrying an out-of-range value is rejected
\* and the stored record keeps its previous values.
C18_RangesKept ==
    [][/\ \A i \in 1..Len(vehicles') : ~OutOfRange(vehicles'[i])
       /\ (Handled("PUT /api/vehicles/:id") /\ OutOfRange(req'.body)) =>
              /\ resp'.status = 400
              /\ vehicles' = vehicles]_vars

\* a PUT with a mileage above the range has been rejected for a stored vehicle
\* that an earlier PUT had moved to the upper limits
C18_Witness ==
    /\ req.op = "PUT /api/vehicles/:id"
    /\ req.body = [mileage |-> 1000000]
    /\ resp.status = 400
    /\ MapHas(vehicles, req.id)
    /\ MapGet(vehicles, req.id).mileage = 999999
    /\ MapGet(vehicles, req.id).make = "A"

\* C19: PUT /api/vehicles/:id responds 400 and leaves the store unchanged when
\* the body fails the partial vehicle schema, whether or not the identifier
\* exists; 404 and leaves the store unchanged when the body is valid and the
\* identifier is unknown; 200 with the merged record only when the body is
\* valid and the identifier is known.
C19_PutStatus ==
    [][Handled("PUT /api/vehicles/:id") =>
           IF FailsPartialSchema(req'.body)
           THEN resp'.status = 400 /\ vehicles' = vehicles
           ELSE IF ~MapHas(vehicles, req'.id)
           THEN resp'.status = 404 /\ vehicles' = vehicles
           ELSE /\ resp'.status = 200
                /\ resp'.body = MapGet(vehicles', req'.id)
                /\ resp'.body.id = req'.id
                /\ \A k \in DOMAIN req'.body \ {"id"} : resp'.body[k] = req'.body[k]
                /\ \A k \in DOMAIN MapGet(vehicles, req'.id) \ (DOMAIN req'.body \cup {"updatedAt"}) :
                       resp'.body[k] = MapGet(vehicles, req'.id)[k]]_vars

\* a body outside the schema has been answered 400 for an identifier that is
\* not stored, beside a stored vehicle
C19_Witness ==
    /\ req.op = "PUT /api/vehicles/:id"
    /\ req.body = [price |-> 500, year |-> 1899]
    /\ ~MapHas(vehicles, req.id)
    /\ resp.status = 400
    /\ Len(vehicles) = 1

(***************************************************************************)
(* Properties of the inference routes and the extraction store.            *)
(***************************************************************************)
\* C21: extractions enter the store only through POST /api/images/analyze. A
\* request whose inference succeeds and that carries a vehicle identifier adds
\* exactly one extraction, for that vehicle, and is answered 200; a request
\* without image data is answered 400; a request whose inference call fails is
\* answered 400 or 500 and adds nothing; a request without a vehicleId adds
\* nothing; and no step of POST /api/images/upload changes the store.
C21_ExtractionsOnlyByAnalyze ==
    [][LET uploadStep == up' # up
           analyzeStep == up' = up /\ req'.op = "POST /api/images/analyze"
           body == req'.body
           carriesVehicle == Has(body, "vehicleId") /\ body.vehicleId # 0
           settles == analyzeStep /\ an.pc = "inference" /\ an'.pc = "idle"
           added == /\ Len(aiExtractions') = Len(aiExtractions) + 1
                    /\ SubSeq(aiExtractions', 1, Len(aiExtractions)) = aiExtractions
       IN /\ aiExtractions' # aiExtractions =>
                settles /\ carriesVehicle /\ added /\ resp'.status = 200
          /\ settles /\ an' # AnIdle /\ carriesVehicle =>
                /\ added
                /\ aiExtractions'[Len(aiExtractions')].vehicleId = body.vehicleId
                /\ resp'.status = 200
          /\ analyzeStep /\ an.pc = "idle" /\ (~Has(body, "imageBase64") \/ body.imageBase64 = "") =>
                resp'.status = 400 /\ aiExtractions' = aiExtractions
          /\ settles /\ an' = AnIdle =>
                resp'.status \in {400, 500} /\ aiExtractions' = aiExtractions
          /\ analyzeStep /\ ~Has(body, "vehicleId") => aiExtractions' = aiExtractions
          /\ uploadStep => aiExtractions' = aiExtractions]_vars

\* an upload has answered 200 with an extraction of its own, the store holds
\* the one extraction of an analyze request, and a later analyze request failed
C21_Witness ==
    /\ up.pc = "done" /\ up.status = 200 /\ Len(up.extractions) > 0
    /\ Len(aiExtractions) = 1
    /\ req.op = "POST /api/images/analyze" /\ resp.status = 400
    /\ Has(req.body, "imageBase64") /\ req.body.imageBase64 # ""

(***************************************************************************)
(* Properties of the image validation.                                     *)
(***************************************************************************)
\* C22: a file is rejected exactly when its declared type, letter case aside,
\* is none of image/jpeg, image/jpg, image/png, image/webp or its size is above
\* 10 MiB (10 * 1024 * 1024 bytes); the message names the reason, the type
\* first when both apply; a file of exactly 10 MiB with an allowed type passes;
\* multer lets through exactly the files validateImageFile accepts.
C22_ImageValidation ==
    req.op = "validateImageFile" =>
        LET mimetype == req.body.mimetype
            size == req.body.size
            SameLetter(c, d) ==
                c = d \/ \E i \in 1..26 : {c, d} = {UpperLetters[i], LowerLetters[i]}
            typeAllowed ==
                \E t \in {<<"i", "m", "a", "g", "e", "/", "j", "p", "e", "g">>,
                          <<"i", "m", "a", "g", "e", "/", "j", "p", "g">>,
                          <<"i", "m", "a", "g", "e", "/", "p", "n", "g">>,
                          <<"i", "m", "a", "g", "e", "/", "w", "e", "b", "p">>} :
                    /\ Len(t) = Len(mimetype)
                    /\ \A i \in 1..Len(t) : SameLetter(t[i], mimetype[i])
            tooLarge == size > 10 * 1024 * 1024
        IN /\ resp.body.message =
                  (IF ~typeAllowed
                   THEN "Invalid file type. Only JPEG, PNG, and WEBP images are allowed."
                   ELSE IF tooLarge THEN "File too large. Maximum size is 10MB."
                   ELSE "")
           /\ resp.body.multer <=> (typeAllowed /\ ~tooLarge)

\* a PNG declared in upper case, of exactly 10 MiB, has been validated
C22_Witness ==
    /\ req.op = "validateImageFile"
    /\ req.body.mimetype = <<"I", "M", "A", "G", "E", "/", "P", "N", "G">>
    /\ req.body.size = 10485760
    /\ resp.body.message = ""

(***************************************************************************)
(* Properties of the fuel type of a decoded VIN.                           *)
(***************************************************************************)
\* C23: on a successful registry answer the reported fuel type, letter case
\* aside, is normalized by the table (gasoline, gas, flex fuel, e85 to
\* gasoline; electric, hybrid, diesel to themselves), every other non-empty
\* value becomes gasoline, and an empty or missing value gives no fuelType; so
\* the fuelType of a decode result is absent or one of gasoline, hybrid,
\* electric, diesel.
C23_FuelTypeNormalized ==
    vin.pc = "done" /\ vin.result.success =>
        LET decoded == vin.answer.Results[1]
            reported == IF Has(decoded, "FuelTypePrimary") THEN decoded.FuelTypePrimary ELSE <<>>
            Reads(word) ==
                /\ Len(word) = Len(reported)
                /\ \A i \in 1..Len(word) :
                       \/ word[i] = reported[i]
                       \/ \E n \in 1..26 : word[i] = LowerLetters[n] /\ reported[i] = UpperLetters[n]
            expected ==
                CASE Reads(<<"e", "l", "e", "c", "t", "r", "i", "c">>) ->
                         <<"e", "l", "e", "c", "t", "r", "i", "c">>
                  [] Reads(<<"h", "y", "b", "r", "i", "d">>) -> <<"h", "y", "b", "r", "i", "d">>
                  [] Reads(<<"d", "i", "e", "s", "e", "l">>) -> <<"d", "i", "e", "s", "e", "l">>
                  [] OTHER -> <<"g", "a", "s", "o", "l", "i", "n", "e">>
        IN /\ reported = <<>> => ~Has(vin.result, "fuelType")
           /\ reported # <<>> => Has(vin.result, "fuelType") /\ vin.result.fuelType = expected
           /\ Has(vin.result, "fuelType") =>
                  vin.result.fuelType \in {<<"g", "a", "s", "o", "l", "i", "n", "e">>,
                                           <<"h", "y", "b", "r", "i", "d">>,
                                           <<"e", "l", "e", "c", "t", "r", "i", "c">>,
                                           <<"d", "i", "e", "s", "e", "l">>}

(***************************************************************************)
(* Properties of the generated listing.                                    *)
(***************************************************************************)
\* C24: the listing generated for a stored vehicle on facebook is titled
\* "{year} {make} {model}", then a space and the trim when the vehicle has a
\* non-empty trim, then " - $" and the price in groups of three digits; the
\* title of the listing is the title inside its listingData; and every listing
\* generated earlier from the same vehicle record has the same title and the
\* same description.
C24_FacebookTitle ==
    [][(/\ req'.op = "POST /api/listings/generate"
        /\ listings' # listings
        /\ resp'.body.platform = "facebook") =>
           LET vehicle == MapGet(vehicles, req'.body.vehicleId)
               listing == resp'.body
               grouped == [n \in {1, 999, 1000, 1005, 15000, 100000, 999999} |->
                              CASE n = 1 -> "1"
                                [] n = 999 -> "999"
                                [] n = 1000 -> "1,000"
                                [] n = 1005 -> "1,005"
                                [] n = 15000 -> "15,000"
                                [] n = 100000 -> "100,000"
                                [] n = 999999 -> "999,999"]
               years == [y \in {1900, 2020, CurrentYear + 1} |->
                            CASE y = 1900 -> "1900" [] y = 2020 -> "2020" [] OTHER -> "2027"]
               trimmed == IF vehicle.trim \in {Null, ""} THEN "" ELSE " " \o vehicle.trim
               expected == years[vehicle.year] \o " Honda Civic" \o trimmed
                           \o " - $" \o grouped[vehicle.price]
           IN /\ vehicle.make = "Honda" /\ vehicle.model = "Civic"
              /\ listing.title = expected
              /\ listing.listingData.title = listing.title
              /\ listing = listings'[Len(listings')]
              /\ \A i \in 1..Len(listings) :
                     listings[i].vehicleId = listing.vehicleId =>
                         /\ listings[i].title = listing.title
                         /\ listings[i].listingData.description = listing.listingData.description]_vars

\* two listings were generated from the vehicle priced 1005 and the last
\* request was answered with the second
C24_Witness ==
    /\ Len(listings) = 2
    /\ listings[1].vehicleId = listings[2].vehicleId
    /\ listings[2].title = "1900 Honda Civic - $1,005"
    /\ req.op = "POST /api/listings/generate" /\ resp.status = 200

(***************************************************************************)
(* Properties of the span handed to the JSON parser.                       *)
(***************************************************************************)
\* C25: when a JSON object at the start of the braces is followed by a
\* second {...} object, or by text holding a closing brace, the parser is given
\* the first balanced {...} span: the result carries the fields of the first
\* object with confidence 85.
C25_FirstBalancedSpan ==
    \A l \in 1..3, s \in {2, 3, 4, 6}, t \in {3, 4} :
        AnalyzedParts(l, s, t) => CarriesFields(resp.body, 85, ExpectedParsed(s))

(***************************************************************************)
(* Properties of the listing preview.                                      *)
(***************************************************************************)
\* the identifiers the store hands out in one run of the client
PreviewIds == 1..(MaxIds + MaxIds * MaxRequests)

\* the preview holds the listing data generated from the vehicle Home shows
PreviewOfShownVehicle ==
    /\ DOMAIN listingPreview.listingData # {}
    /\ listingPreview.listingData.vehicleDetails.year = home.selectedVehicle.year
    /\ listingPreview.listingData.vehicleDetails.make = home.selectedVehicle.make
    /\ listingPreview.listingData.price = home.selectedVehicle.price

\* C26: whenever a saved vehicle is handed to ListingPreview, then in time the
\* preview holds the listing data of the vehicle it is handed (the latest one
\* saved), unless a generate request for that vehicle fails: it does not stay
\* without data or with the data of the vehicle saved before.
C26_PreviewFollowsVehicle ==
    (DOMAIN home.selectedVehicle # {}) ~>
        \/ PreviewOfShownVehicle
        \/ \E i \in 1..Len(listingPreview.requests) :
               /\ listingPreview.requests[i].vehicleId = home.selectedVehicle.id
               /\ listingPreview.requests[i].pc = "failed"

\* C27: for one saved vehicle, ListingPreview issues at most one generate
\* request, whatever happens before its answer arrives and also when it
\* fails, and the store holds at most one listing of the vehicle.
C27_OneGeneratePerVehicle ==
    \A id \in PreviewIds :
        /\ Cardinality({i \in 1..Len(listingPreview.requests) :
                           listingPreview.requests[i].vehicleId = id}) <= 1
        /\ Len(getListingsByVehicle(listings, id)) <= 1

(***************************************************************************)
(* Properties of the upload panel.                                         *)
(***************************************************************************)
\* C28: the images sent with the vehicle in POST /api/vehicles are the images
\* the upload preview shows at the moment of the submit: the images of every
\* batch uploaded so far, without the ones the user removed.
C28_SubmittedImagesAreShown ==
    [][(req'.op = "POST /api/vehicles" /\ vehicles' # vehicles) =>
           req'.body.images = imageUpload.uploadedImages]_vars

\* C29: the record store keeps its identities. In every reachable state the
\* identifiers of the vehicles, and those of the listings, are pairwise
\* distinct and no vehicle or listing has
\* an updatedAt earlier than its createdAt; every step that sets an entry
\* stores under the key it was called with a record whose id is that key (the
\* fresh identifier on a create, the identifier of the request on an update);
\* the store is empty at the start; and an update leaves the id and the createdAt of every record as they were.
C29_StoreIdentity ==
    [][LET Distinct(m) == \A i, j \in 1..Len(m) : i # j => m[i].id # m[j].id
           Stamped(m) == \A i \in 1..Len(m) : m[i].updatedAt >= m[i].createdAt
           KeyOfStep == IF nextId' # nextId THEN nextId ELSE req'.id
           Keyed(m, n) ==
               Len(n) >= Len(m) =>
                   \A i \in 1..Len(n) : (i > Len(m) \/ n[i] # m[i]) => n[i].id = KeyOfStep
           Kept(m, n) ==
               Len(n) = Len(m) =>
                   \A i \in 1..Len(n) :
                       /\ n[i].id = m[i].id
                       /\ n[i].createdAt = m[i].createdAt
                       /\ n[i] # m[i] => n[i].updatedAt = now
       IN /\ Distinct(vehicles') /\ Distinct(listings')
          /\ Stamped(vehicles') /\ Stamped(listings')
          /\ Keyed(vehicles, vehicles') /\ Keyed(listings, listings')
          /\ Kept(vehicles, vehicles') /\ Kept(listings, listings')]_vars

\* a PUT whose body names a createdAt was answered 200 with the record's own
\* createdAt, a later updatedAt and the identifier of the request, next to a
\* listing that was updated through the store after the clock moved
C29_Witness ==
    /\ req.op = "PUT /api/vehicles/:id"
    /\ resp.status = 200
    /\ Has(req.body, "createdAt")
    /\ resp.body.createdAt # req.body.createdAt
    /\ resp.body.updatedAt > resp.body.createdAt
    /\ resp.body.id = req.id
    /\ \E i \in 1..Len(listings) :
           listings[i].status = "published" /\ listings[i].updatedAt > listings[i].createdAt

\* C30: in every 200 response of POST /api/images/upload, images holds one
\* entry per uploaded file in upload order (entry i carries the extension, the
\* type and the size of file i), and aiExtractions is an order-preserving
\* subsequence of images: extraction k carries the url of exactly one image,
\* the image of the k-th inference call that returned, the images of two
\* extractions are different and stand in the order of the extractions, and
\* there are no more extractions than images.
C30_ExtractionsFollowImages ==
    (up.pc = "done" /\ up.status = 200) =>
        LET ReturnedCalls == {c \in 1..Len(up.calls) : c \notin FailedCalls}
            ImagesOf(k) == {i \in 1..Len(up.images) : up.images[i].url = up.extractions[k].imageUrl}
            ImageOf(k) == CHOOSE i \in ImagesOf(k) : TRUE
        IN /\ Len(up.images) = Len(up.files)
           /\ \A i \in 1..Len(up.images) :
                  /\ up.images[i].filename.ext = up.files[i].ext
                  /\ up.images[i].mimetype = up.files[i].mimetype
                  /\ up.images[i].size = up.files[i].size
                  /\ up.images[i].url.uuid = up.images[i].filename.uuid
           /\ Len(up.extractions) <= Len(up.images)
           /\ \A k \in 1..Len(up.extractions) :
                  /\ Cardinality(ImagesOf(k)) = 1
                  /\ Cardinality({c \in ReturnedCalls : c <= ImageOf(k)}) = k
           /\ \A k, l \in 1..Len(up.extractions) : k < l => ImageOf(k) < ImageOf(l)

\* three files of different kinds answered 200: the call of the second image
\* failed, and the two extractions are those of the first and the third image
C30_Witness ==
    /\ up.pc = "done"
    /\ up.status = 200
    /\ up.files = <<SmallJpeg, FullPng, SmallJpeg>>
    /\ up.calls[1].outcome = "json"
    /\ up.calls[2].outcome = "status"
    /\ up.calls[3].outcome = "nojson"
    /\ Len(up.extractions) = 2
    /\ up.extractions[1].imageUrl = up.images[1].url
    /\ up.extractions[2].imageUrl = up.images[3].url

=============================================================================
